---- MODULE Spec2Model ----
(***************************************************************************)
(* Model of the in-process infrastructure of src/index.js:                 *)
(*   - LRUCache      (src/index.js:31-56)                                  *)
(*   - SessionQueue  (src/index.js:59-85)                                  *)
(* A JavaScript Map is modelled as the sequence of its entries in          *)
(* insertion order; an Array as a sequence.  Date.now() is the variable    *)
(* now, advanced by Tick.  The timestamps a queue item carries (addedAt,   *)
(* completedAt, failedAt) are written and never read by the code; the      *)
(* order they record is kept by the item ids (add order) and by doneOrder  *)
(* (order of completion or failure).                                       *)
(***************************************************************************)
EXTENDS Integers, Sequences, FiniteSets, TLC

\* ------------------------------------------------------------------ bounds
MaxSize == 2        \* largest configured LRUCache.maxSize explored
MaxTime == 2        \* Date.now() ranges over 0..MaxTime
MaxAdds == 2        \* SessionQueue.add calls explored per behaviour
MaxRetained == 1    \* largest configured SessionQueue.maxRetained explored

MaxInflight == 2    \* julesRequest network attempts in flight at once
MaxClock == 180000  \* Elapse stops at this value of Date.now()
MaxTries == 3       \* largest maxRetries option explored
MaxOver == 2        \* requests logged beyond RATE_LIMIT_MAX before time must pass
MaxLimiters == 3    \* RedisRateLimiter instances constructed per behaviour
MaxRequests == 3    \* HTTP requests received per behaviour

\* ------------------------------------------------------ program constants
Threshold == 5           \* circuitBreaker.threshold
ResetTimeout == 60000    \* circuitBreaker.resetTimeout
RateLimitWindow == 60000 \* RATE_LIMIT_WINDOW
RateLimitMax == 100      \* RATE_LIMIT_MAX

\* ------------------------------------------------------ input domains
\* Keys are strings, modelled as sequences of characters.
Keys == { <<"s", "a">>, <<"s", "t">>, <<"x", "a">> }
Patterns == { <<"s">>, <<"a">>, <<"s", "a">>, <<"a", "s">>, <<>> }
Values == { "v1", "v2" }
TTLs == { 1 }            \* explicit ttl arguments
DefaultTTLs == { 2 }     \* configured defaultTTL
Undefined == -1     \* an omitted argument
Null == "null"      \* the JavaScript null returned by LRUCache.get
NoKey == <<"-">>    \* key slot of an operation that takes no key
Priorities == { 1 }      \* explicit priority arguments
Configs == { "cfgA", "cfgB" }
None == "none"      \* a field that has not been assigned
NoId == 0           \* undefined / null where an item is expected
DefaultPriority == 5     \* add(config, priority = 5)

VARIABLES
  cache,        \* LRUCache.cache : entries [key, value, expires] in Map order
  maxSize,      \* LRUCache.maxSize
  defaultTTL,   \* LRUCache.defaultTTL
  now,          \* Date.now()
  useOrder,     \* history: present keys ordered by last insertion or read
  lastSet,      \* history: the value last passed to set() for each key
  cacheOp,      \* history: the last LRUCache call, its result, the size before
  queue,        \* SessionQueue.queue : the array of items
  maxRetained,  \* SessionQueue.maxRetained
  nextId,       \* number of the next add(); stands for the generated unique id
  doneOrder,    \* history: present terminal ids, oldest completion/failure first
  qOp,          \* history: the last SessionQueue call, its result, items it dropped
  failures,     \* circuitBreaker.failures
  lastFailure,  \* circuitBreaker.lastFailure (null is 0 in the subtraction)
  inflight,     \* julesRequest promises waiting for the network
  hist,         \* history of the breaker calls: consec, sinceReset, trial, tripped
  cbOp,         \* history: the last step that used the breaker and what it called
  retry,        \* the retryWithBackoff call in progress, with its history
  rateLimitStore, \* rateLimitStore : entries [key (ip), value (request times)]
  limOp,        \* history: the last run of the /mcp/ rate limit middleware
  buckets,      \* Bucket State per (identity, route): [tokens, lastRefill]
  bkOp,         \* history: the last admit() and its answer
  rateLimiter,  \* the singleton of the integration module (NoLimiter: null)
  tiers,        \* the tier stored for each API key
  rl,           \* calls of the integration module that are suspended, and history
  rlOp,         \* history: the last call of the integration module that returned
  redis,        \* CACHE_ENABLED, isRedisConnected and the contents of the store
  reqs,         \* the HTTP requests being served, and the last ones answered
  server,       \* sessionMonitor, and the number of requests received
  pq            \* the processQueue invocations, and the items they took

cacheVars == <<cache, maxSize, defaultTTL, useOrder, lastSet, cacheOp>>
queueVars == <<queue, maxRetained, nextId, doneOrder, qOp>>
upVars == <<failures, lastFailure, inflight, hist, cbOp>>
retryVars == <<retry>>
limVars == <<rateLimitStore, limOp>>
bucketVars == <<buckets, bkOp>>
rlVars == <<rateLimiter, tiers, rl, rlOp>>
httpVars == <<redis, reqs, server>>
procVars == <<pq>>
webVars == <<limVars, bucketVars, rlVars, httpVars, procVars>>
vars == <<cache, maxSize, defaultTTL, now, useOrder, lastSet, cacheOp,
          queue, maxRetained, nextId, doneOrder, qOp,
          failures, lastFailure, inflight, hist, cbOp, retry,
          rateLimitStore, limOp, buckets, bkOp,
          rateLimiter, tiers, rl, rlOp, redis, reqs, server, pq>>

\* --------------------------------------------------------- Map on sequences
SeqKeys(c) == { c[i].key : i \in 1..Len(c) }

KeyList(c) == [ i \in 1..Len(c) |-> c[i].key ]

MapHas(c, key) == \E i \in 1..Len(c) : c[i].key = key

MapIndex(c, key) == CHOOSE i \in 1..Len(c) : c[i].key = key

MapGet(c, key) == c[MapIndex(c, key)]

MapDelete(c, key) == SelectSeq(c, LAMBDA e : e.key # key)

\* Map.prototype.set: an existing key keeps its position, a new key is appended
MapSet(c, key, item) ==
  IF MapHas(c, key)
    THEN [ i \in 1..Len(c) |-> IF c[i].key = key THEN item ELSE c[i] ]
    ELSE Append(c, item)

\* String.prototype.includes
Includes(key, pattern) ==
  \E i \in 0..(Len(key) - Len(pattern)) :
    \A j \in 1..Len(pattern) : key[i + j] = pattern[j]

\* ---------------------------------------------------------------- LRUCache
\* get(key) at time t: the new Map and the returned value
LRUGetNoTouch(c, key, t) ==
  IF ~MapHas(c, key) THEN [cache |-> c, ret |-> Null]
  ELSE LET item == MapGet(c, key) IN
       IF t > item.expires
         THEN [cache |-> MapDelete(c, key), ret |-> Null]
         ELSE [cache |-> c, ret |-> item.value]

LRUGetNoExpiry(c, key, t) ==
  IF ~MapHas(c, key) THEN [cache |-> c, ret |-> Null]
  ELSE LET item == MapGet(c, key) IN
       [cache |-> MapSet(MapDelete(c, key), key, item), ret |-> item.value]

LRUGet(c, key, t) ==
  IF ~MapHas(c, key) THEN [cache |-> c, ret |-> Null]
  ELSE LET item == MapGet(c, key) IN
       IF t > item.expires
         THEN [cache |-> MapDelete(c, key), ret |-> Null]
         ELSE [cache |-> MapSet(MapDelete(c, key), key, item),
               ret |-> item.value]

\* set(key, value, ttl) at time t with capacity ms and default TTL dflt
LRUSetNoEvict(c, ms, dflt, key, value, ttl, t) ==
  MapSet(c, key, [key |-> key, value |-> value,
                  expires |-> t + (IF ttl = Undefined THEN dflt ELSE ttl)])

LRUSetEvictAlways(c, ms, dflt, key, value, ttl, t) ==
  LET c1 == IF Len(c) >= ms /\ Len(c) > 0
              THEN MapDelete(c, c[1].key) ELSE c
  IN MapSet(c1, key, [key |-> key, value |-> value,
                      expires |-> t + (IF ttl = Undefined THEN dflt ELSE ttl)])

LRUSet(c, ms, dflt, key, value, ttl, t) ==
  LET c1 == IF Len(c) >= ms /\ ~MapHas(c, key) /\ Len(c) > 0
              THEN MapDelete(c, c[1].key) ELSE c
  IN MapSet(c1, key, [key |-> key, value |-> value,
                      expires |-> t + (IF ttl = Undefined THEN dflt ELSE ttl)])

\* invalidate(pattern)
LRUInvalidatePrefix(c, pattern) ==
  SelectSeq(c, LAMBDA e :
    ~(Len(pattern) <= Len(e.key) /\ SubSeq(e.key, 1, Len(pattern)) = pattern))

LRUInvalidate(c, pattern) ==
  SelectSeq(c, LAMBDA e : ~Includes(e.key, pattern))

LRUClear(c) == << >>

LRUStats(c, ms) == [size |-> Len(c), maxSize |-> ms]

\* ----------------------------------------------------------------- actions
NoValue == [ k \in Keys |-> Null ]

RemoveKey(s, key) == SelectSeq(s, LAMBDA k : k # key)

InitCache ==
  /\ cache = << >>
  /\ maxSize \in 1..MaxSize
  /\ defaultTTL \in DefaultTTLs
  /\ useOrder = << >>
  /\ lastSet = NoValue
  /\ cacheOp = [op |-> "new", key |-> NoKey, hit |-> FALSE, ret |-> Null,
                n |-> 0]

Tick ==
  /\ now < MaxTime
  /\ now' = now + 1
  /\ cacheOp' = [op |-> "tick", key |-> NoKey, hit |-> FALSE, ret |-> Null,
                 n |-> Len(cache)]
  /\ UNCHANGED <<cache, maxSize, defaultTTL, useOrder, lastSet>>
  /\ UNCHANGED queueVars
  /\ UNCHANGED upVars
  /\ UNCHANGED retryVars
  /\ UNCHANGED webVars

CacheGet(key) ==
  LET r == LRUGet(cache, key, now) IN
  /\ cache' = r.cache
  /\ useOrder' = IF r.ret # Null THEN Append(RemoveKey(useOrder, key), key)
                 ELSE RemoveKey(useOrder, key)
  /\ cacheOp' = [op |-> "get", key |-> key, hit |-> MapHas(cache, key),
                 ret |-> r.ret, n |-> Len(cache)]
  /\ UNCHANGED <<maxSize, defaultTTL, now, lastSet>>
  /\ UNCHANGED queueVars
  /\ UNCHANGED upVars
  /\ UNCHANGED retryVars
  /\ UNCHANGED webVars

CacheSet(key, value, ttl) ==
  LET c2 == LRUSet(cache, maxSize, defaultTTL, key, value, ttl, now) IN
  /\ cache' = c2
  /\ useOrder' = LET kept == SelectSeq(useOrder, LAMBDA k : MapHas(c2, k))
                 IN IF MapHas(cache, key) THEN kept ELSE Append(kept, key)
  /\ lastSet' = [lastSet EXCEPT ![key] = value]
  /\ cacheOp' = [op |-> "set", key |-> key, hit |-> MapHas(cache, key),
                 ret |-> Null, n |-> Len(cache)]
  /\ UNCHANGED <<maxSize, defaultTTL, now>>
  /\ UNCHANGED queueVars
  /\ UNCHANGED upVars
  /\ UNCHANGED retryVars
  /\ UNCHANGED webVars

CacheInvalidate(pattern) ==
  LET c2 == LRUInvalidate(cache, pattern) IN
  /\ cache' = c2
  /\ useOrder' = SelectSeq(useOrder, LAMBDA k : MapHas(c2, k))
  /\ cacheOp' = [op |-> "invalidate", key |-> pattern, hit |-> FALSE,
                 ret |-> Null, n |-> Len(cache)]
  /\ UNCHANGED <<maxSize, defaultTTL, now, lastSet>>
  /\ UNCHANGED queueVars
  /\ UNCHANGED upVars
  /\ UNCHANGED retryVars
  /\ UNCHANGED webVars

CacheClear ==
  /\ cache' = LRUClear(cache)
  /\ useOrder' = << >>
  /\ cacheOp' = [op |-> "clear", key |-> NoKey, hit |-> FALSE, ret |-> Null, n |-> Len(cache)]
  /\ UNCHANGED <<maxSize, defaultTTL, now, lastSet>>
  /\ UNCHANGED queueVars
  /\ UNCHANGED upVars
  /\ UNCHANGED retryVars
  /\ UNCHANGED webVars

\* ------------------------------------------------------------ SessionQueue
IsTerminal(i) == i.status = "completed" \/ i.status = "failed"

Ids(q) == { q[i].id : i \in 1..Len(q) }

\* Array.prototype.find(i => i.id === id): the first match, if any
FindIndex(q, id) ==
  IF \E i \in 1..Len(q) : q[i].id = id
    THEN CHOOSE i \in 1..Len(q) :
           q[i].id = id /\ \A j \in 1..(i - 1) : q[j].id # id
    ELSE 0

\* Array.prototype.splice(idx, 1)
Splice(q, idx) == SubSeq(q, 1, idx - 1) \o SubSeq(q, idx + 1, Len(q))

\* Array.prototype.sort((a, b) => a.priority - b.priority), a stable sort
RECURSIVE InsertByPriority(_, _)
InsertByPriority(sorted, x) ==
  IF sorted = << >> THEN <<x>>
  ELSE IF sorted[Len(sorted)].priority - x.priority <= 0
    THEN Append(sorted, x)
    ELSE Append(InsertByPriority(SubSeq(sorted, 1, Len(sorted) - 1), x),
                sorted[Len(sorted)])

RECURSIVE SortByPriority(_)
SortByPriority(q) ==
  IF q = << >> THEN << >>
  ELSE InsertByPriority(SortByPriority(SubSeq(q, 1, Len(q) - 1)), q[Len(q)])

\* _cleanup(): drop the first terminal.length - maxRetained terminal items
RECURSIVE RemoveItems(_, _)
RemoveItems(q, toRemove) ==
  IF toRemove = << >> THEN q
  ELSE LET idx == FindIndex(q, toRemove[1].id) IN
       RemoveItems(IF idx >= 1 THEN Splice(q, idx) ELSE q, Tail(toRemove))

CleanupByIndex(q, maxRet) ==
  LET terminal == SelectSeq(q, IsTerminal) IN
  IF Len(terminal) > maxRet
    THEN SubSeq(q, Len(terminal) - maxRet + 1, Len(q))
    ELSE q

Cleanup(q, maxRet) ==
  LET terminal == SelectSeq(q, IsTerminal) IN
  IF Len(terminal) > maxRet
    THEN RemoveItems(q, SubSeq(terminal, 1, Len(terminal) - maxRet))
    ELSE q

NewItem(id, config, priority) ==
  [id |-> id, config |-> config,
   priority |-> IF priority = Undefined THEN DefaultPriority ELSE priority,
   status |-> "pending", sessionId |-> None, error |-> None]

\* add(config, priority)
QAddNoSort(q, maxRet, id, config, priority) ==
  Cleanup(Append(q, NewItem(id, config, priority)), maxRet)

QAdd(q, maxRet, id, config, priority) ==
  Cleanup(SortByPriority(Append(q, NewItem(id, config, priority))), maxRet)

\* remove(id): the new array and the removed item's id (NoId for null)
QRemove(q, id) ==
  LET idx == FindIndex(q, id) IN
  IF idx >= 1 THEN [queue |-> Splice(q, idx), ret |-> q[idx].id]
  ELSE [queue |-> q, ret |-> NoId]

\* getNext(): the id of the first pending item, NoId for undefined
QGetNext(q) ==
  IF \E i \in 1..Len(q) : q[i].status = "pending"
    THEN q[CHOOSE i \in 1..Len(q) :
             /\ q[i].status = "pending"
             /\ \A j \in 1..(i - 1) : q[j].status # "pending"].id
    ELSE NoId

QMarkProcessing(q, id) ==
  LET idx == FindIndex(q, id) IN
  IF idx >= 1 THEN [q EXCEPT ![idx].status = "processing"] ELSE q

QMarkComplete(q, maxRet, id, sessionId) ==
  LET idx == FindIndex(q, id) IN
  Cleanup(IF idx >= 1
            THEN [q EXCEPT ![idx].status = "completed",
                           ![idx].sessionId = sessionId]
            ELSE q, maxRet)

QMarkFailedNoCleanup(q, maxRet, id, error) ==
  LET idx == FindIndex(q, id) IN
  IF idx >= 1
    THEN [q EXCEPT ![idx].status = "failed", ![idx].error = error]
    ELSE q

QMarkFailed(q, maxRet, id, error) ==
  LET idx == FindIndex(q, id) IN
  Cleanup(IF idx >= 1
            THEN [q EXCEPT ![idx].status = "failed", ![idx].error = error]
            ELSE q, maxRet)

\* clear(): the new array and the number of pending items removed
QClearLive(q) ==
  [queue |-> SelectSeq(q, IsTerminal),
   ret |-> Len(SelectSeq(q, LAMBDA i : i.status = "pending"))]

QClear(q) ==
  [queue |-> SelectSeq(q, LAMBDA i : i.status # "pending"),
   ret |-> Len(SelectSeq(q, LAMBDA i : i.status = "pending"))]

QStats(q) ==
  [total |-> Len(q),
   pending |-> Len(SelectSeq(q, LAMBDA i : i.status = "pending")),
   processing |-> Len(SelectSeq(q, LAMBDA i : i.status = "processing")),
   completed |-> Len(SelectSeq(q, LAMBDA i : i.status = "completed")),
   failed |-> Len(SelectSeq(q, LAMBDA i : i.status = "failed"))]

\* ----------------------------------------------------------- queue actions
\* doneOrder after a call: the ids that are terminal in q2, those already
\* terminal in their old order, then the one the call has just marked
Marked(order, q2, id) ==
  LET kept == SelectSeq(order, LAMBDA d :
                d # id /\ \E i \in 1..Len(q2) : q2[i].id = d /\ IsTerminal(q2[i]))
  IN IF \E i \in 1..Len(q2) : q2[i].id = id /\ IsTerminal(q2[i])
       THEN Append(kept, id) ELSE kept

StillDone(order, q2) ==
  SelectSeq(order, LAMBDA d :
    \E i \in 1..Len(q2) : q2[i].id = d /\ IsTerminal(q2[i]))

InitQueue ==
  /\ queue = << >>
  /\ maxRetained \in 0..MaxRetained
  /\ nextId = 1
  /\ doneOrder = << >>
  /\ qOp = [op |-> "new", id |-> NoId, ret |-> NoId, dropped |-> 0]

QueueAdd(config, priority) ==
  /\ nextId <= MaxAdds
  /\ queue' = QAdd(queue, maxRetained, nextId, config, priority)
  /\ nextId' = nextId + 1
  /\ doneOrder' = StillDone(doneOrder, queue')
  /\ qOp' = [op |-> "add", id |-> nextId, ret |-> nextId,
             dropped |-> Len(queue) + 1 - Len(queue')]
  /\ UNCHANGED <<maxRetained, now>>
  /\ UNCHANGED cacheVars
  /\ UNCHANGED upVars
  /\ UNCHANGED retryVars
  /\ UNCHANGED webVars

QueueRemove(id) ==
  LET r == QRemove(queue, id) IN
  /\ queue' = r.queue
  /\ doneOrder' = StillDone(doneOrder, queue')
  /\ qOp' = [op |-> "remove", id |-> id, ret |-> r.ret, dropped |-> 0]
  /\ UNCHANGED <<maxRetained, nextId, now>>
  /\ UNCHANGED cacheVars
  /\ UNCHANGED upVars
  /\ UNCHANGED retryVars
  /\ UNCHANGED webVars

QueueGetNext ==
  /\ qOp' = [op |-> "getNext", id |-> NoId, ret |-> QGetNext(queue),
             dropped |-> 0]
  /\ UNCHANGED <<queue, maxRetained, nextId, doneOrder, now>>
  /\ UNCHANGED cacheVars
  /\ UNCHANGED upVars
  /\ UNCHANGED retryVars
  /\ UNCHANGED webVars

QueueMarkProcessing(id) ==
  /\ queue' = QMarkProcessing(queue, id)
  /\ doneOrder' = StillDone(doneOrder, queue')
  /\ qOp' = [op |-> "markProcessing", id |-> id, ret |-> NoId,
             dropped |-> 0]
  /\ UNCHANGED <<maxRetained, nextId, now>>
  /\ UNCHANGED cacheVars
  /\ UNCHANGED upVars
  /\ UNCHANGED retryVars
  /\ UNCHANGED webVars

QueueMarkComplete(id, sessionId) ==
  /\ queue' = QMarkComplete(queue, maxRetained, id, sessionId)
  /\ doneOrder' = Marked(doneOrder, queue', id)
  /\ qOp' = [op |-> "markComplete", id |-> id, ret |-> NoId,
             dropped |-> Len(queue) - Len(queue')]
  /\ UNCHANGED <<maxRetained, nextId, now>>
  /\ UNCHANGED cacheVars
  /\ UNCHANGED upVars
  /\ UNCHANGED retryVars
  /\ UNCHANGED webVars

QueueMarkFailed(id, error) ==
  /\ queue' = QMarkFailed(queue, maxRetained, id, error)
  /\ doneOrder' = Marked(doneOrder, queue', id)
  /\ qOp' = [op |-> "markFailed", id |-> id, ret |-> NoId,
             dropped |-> Len(queue) - Len(queue')]
  /\ UNCHANGED <<maxRetained, nextId, now>>
  /\ UNCHANGED cacheVars
  /\ UNCHANGED upVars
  /\ UNCHANGED retryVars
  /\ UNCHANGED webVars

QueueClear ==
  LET r == QClear(queue) IN
  /\ queue' = r.queue
  /\ doneOrder' = StillDone(doneOrder, queue')
  /\ qOp' = [op |-> "clear", id |-> NoId, ret |-> r.ret, dropped |-> 0]
  /\ UNCHANGED <<maxRetained, nextId, now>>
  /\ UNCHANGED cacheVars
  /\ UNCHANGED upVars
  /\ UNCHANGED retryVars
  /\ UNCHANGED webVars

\* ---------------------------------------------------------- circuitBreaker
\* isOpen() at time t: the returned value and the failure count it leaves
IsOpenNoReset(f, lf, t) ==
  IF f >= Threshold /\ t - lf < ResetTimeout
    THEN [ret |-> TRUE, failures |-> f]
    ELSE [ret |-> FALSE, failures |-> f]

IsOpenStrict(f, lf, t) ==
  IF f > Threshold
    THEN IF t - lf < ResetTimeout
           THEN [ret |-> TRUE, failures |-> f]
           ELSE [ret |-> FALSE, failures |-> 0]
    ELSE [ret |-> FALSE, failures |-> f]

IsOpen(f, lf, t) ==
  IF f >= Threshold
    THEN IF t - lf < ResetTimeout
           THEN [ret |-> TRUE, failures |-> f]
           ELSE [ret |-> FALSE, failures |-> 0]
    ELSE [ret |-> FALSE, failures |-> f]

RecordSuccess(f) == 0

RecordFailureNoStamp(f, lf, t) == [failures |-> f + 1, lastFailure |-> lf]

RecordFailure(f, lf, t) == [failures |-> f + 1, lastFailure |-> t]

\* The history kept beside the breaker:
\*   consec     recordFailure calls since the last recordSuccess (up to Threshold)
\*   sinceReset recordFailure calls since the last recordSuccess or auto-close
\*   trial      "closed" after an auto-close, "failed" when the next breaker
\*              call was a recordFailure, "checked" when isOpen followed that
\*   tripped    the count has reached Threshold and resetTimeout has not been
\*              seen to elapse since the last failure
\*   failedAt   the time of the last recordFailure call
Sat(n) == IF n >= Threshold THEN Threshold ELSE n

NoHist == [consec |-> 0, sinceReset |-> 0, trial |-> "none", tripped |-> FALSE,
           failedAt |-> 0]

\* one breaker call applied to b = [failures, lastFailure, hist, open, reset]
ApplyCall(b, call, t) ==
  IF call = "isOpen" THEN
    LET r == IsOpen(b.failures, b.lastFailure, t)
        closes == b.failures >= Threshold /\ ~r.ret
    IN [b EXCEPT !.failures = r.failures,
                 !.open = IF b.asked THEN b.open ELSE r.ret,
                 !.asked = TRUE,
                 !.reset = b.reset \/ closes,
                 !.hist.sinceReset = IF closes THEN 0 ELSE @,
                 !.hist.trial = IF closes THEN "closed"
                                ELSE IF @ = "failed" THEN "checked"
                                ELSE IF @ = "checked" THEN "none" ELSE @,
                 !.hist.tripped = @ /\ t - b.hist.failedAt < ResetTimeout]
  ELSE IF call = "recordSuccess" THEN
    [b EXCEPT !.failures = RecordSuccess(b.failures),
              !.hist.consec = 0,
              !.hist.sinceReset = 0,
              !.hist.trial = "none"]
  ELSE
    LET r == RecordFailure(b.failures, b.lastFailure, t) IN
    [b EXCEPT !.failures = r.failures,
              !.lastFailure = r.lastFailure,
              !.hist.consec = Sat(@ + 1),
              !.hist.sinceReset = Sat(@ + 1),
              !.hist.trial = IF @ = "closed" THEN "failed" ELSE "none",
              !.hist.tripped = @ \/ r.failures >= Threshold,
              !.hist.failedAt = t]

RECURSIVE ApplyCalls(_, _, _)
ApplyCalls(b, calls, t) ==
  IF calls = << >> THEN b
  ELSE ApplyCalls(ApplyCall(b, calls[1], t), Tail(calls), t)

Breaker == [failures |-> failures, lastFailure |-> lastFailure, hist |-> hist,
            open |-> FALSE, asked |-> FALSE, reset |-> FALSE]

\* what the handlers of one julesRequest outcome call on the breaker
Outcomes == { "ok", "httpError", "tooLarge", "netError",
              "timeoutNoResponse", "timeoutInResponse" }

OutcomeCalls(outcome) ==
  IF outcome = "ok" THEN <<"recordSuccess">>
  ELSE IF outcome = "timeoutNoResponse"
    THEN <<"recordFailure", "recordFailure">>
    ELSE <<"recordFailure">>

InitUpstream ==
  /\ failures = 0
  /\ lastFailure = 0
  /\ inflight = 0
  /\ hist = NoHist
  /\ cbOp = [op |-> "new", ret |-> "-", calls |-> << >>, open |-> FALSE,
             reset |-> FALSE]

\* the breaker calls of one step, made at the current time
UseBreaker(op, calls, b, ret) ==
  /\ failures' = b.failures
  /\ lastFailure' = b.lastFailure
  /\ hist' = b.hist
  /\ cbOp' = [op |-> op, ret |-> ret, calls |-> calls, open |-> b.open,
              reset |-> b.reset]

Elapse(d) ==
  /\ now + d <= MaxClock
  /\ now' = now + d
  /\ cbOp' = [op |-> "elapse", ret |-> "-", calls |-> << >>, open |-> FALSE,
              reset |-> FALSE]
  /\ UNCHANGED <<failures, lastFailure, inflight, hist>>
  /\ UNCHANGED cacheVars
  /\ UNCHANGED queueVars
  /\ UNCHANGED retryVars
  /\ UNCHANGED webVars

\* julesRequest, were a rejection by the open breaker recorded as a failure
JulesRequestRecordsRejection ==
  LET b0 == ApplyCalls(Breaker, <<"isOpen">>, now)
      calls == IF b0.open THEN <<"isOpen", "recordFailure">> ELSE <<"isOpen">>
      b == ApplyCalls(Breaker, calls, now)
  IN
  /\ b.open \/ inflight < MaxInflight
  /\ UseBreaker("julesRequest", calls, b,
                IF b.open THEN "rejected" ELSE "attempted")
  /\ inflight' = IF b.open THEN inflight ELSE inflight + 1
  /\ UNCHANGED now
  /\ UNCHANGED cacheVars
  /\ UNCHANGED queueVars
  /\ UNCHANGED retryVars
  /\ UNCHANGED webVars

\* julesRequest up to the point where the promise waits for the network
JulesRequest ==
  LET b == ApplyCalls(Breaker, <<"isOpen">>, now) IN
  /\ b.open \/ inflight < MaxInflight
  /\ UseBreaker("julesRequest", <<"isOpen">>, b,
                IF b.open THEN "rejected" ELSE "attempted")
  /\ inflight' = IF b.open THEN inflight ELSE inflight + 1
  /\ UNCHANGED now
  /\ UNCHANGED cacheVars
  /\ UNCHANGED queueVars
  /\ UNCHANGED retryVars
  /\ UNCHANGED webVars

\* the request of a retried call that waits for the network (one at most)
Waiting ==
  IF retry.pc = "wait" /\ retry.fn = "julesRequest" THEN 1 ELSE 0

\* the response, error or timeout handlers of a request in flight that was
\* issued outside retryWithBackoff
JulesComplete(outcome) ==
  /\ inflight > Waiting
  /\ UseBreaker("complete", OutcomeCalls(outcome),
                ApplyCalls(Breaker, OutcomeCalls(outcome), now), outcome)
  /\ inflight' = inflight - 1
  /\ UNCHANGED now
  /\ UNCHANGED cacheVars
  /\ UNCHANGED queueVars
  /\ UNCHANGED retryVars
  /\ UNCHANGED webVars

\* GET /health with JULES_API_KEY configured
Health ==
  /\ UseBreaker("health", <<"isOpen", "isOpen", "isOpen">>,
                ApplyCalls(Breaker, <<"isOpen", "isOpen", "isOpen">>, now), "-")
  /\ UNCHANGED <<inflight, now>>
  /\ UNCHANGED cacheVars
  /\ UNCHANGED queueVars
  /\ UNCHANGED retryVars
  /\ UNCHANGED webVars

\* the jules_cache_stats tool
CacheStats ==
  /\ UseBreaker("cacheStats", <<"isOpen">>,
                ApplyCalls(Breaker, <<"isOpen">>, now), "-")
  /\ UNCHANGED <<inflight, now>>
  /\ UNCHANGED cacheVars
  /\ UNCHANGED queueVars
  /\ UNCHANGED retryVars
  /\ UNCHANGED webVars

\* ------------------------------------------------------- retryWithBackoff
\* An error is [statusCode, by, msg]: by is the number of the invocation of fn
\* that raised it (0 for a value no invocation raised).  The record retry holds
\* the locals of the call (attempt, lastError, the options) and its history:
\*   calls     invocations of fn so far
\*   errs      the errors those invocations raised, in order
\*   delayLog  the delays awaited so far, in order
\*   fnValue   the value fn resolved with
\*   gates     for julesRequest: what the breaker gate answered, per invocation
\*   recorded  for julesRequest: the breaker calls of its handlers
\*   upstream  for julesRequest: the response status each attempt that passed
\*             the gate met (0 when no complete response arrived)
StatusCodes == { 400, 404, 429, 499, 500, 503 }
Results == { "r1", "r2" }
Jitters == { 0, 999 }            \* Math.floor of Math.random() * 1000
DefaultBaseDelay == 1000
DefaultMaxDelay == 10000
MaxDelays == { 1500, 3000, DefaultMaxDelay }
WrappedMaxRetries == 2           \* { maxRetries: 2 } of cancelSession, deleteSession
SessionKeys == { <<"s", "a">> }

UndefinedError == [statusCode |-> Undefined, by |-> 0, msg |-> "undefined"]

NoRetry ==
  [pc |-> "idle", caller |-> "-", fn |-> "-", maxRetries |-> 0,
   baseDelay |-> 0, maxDelay |-> 0, attempt |-> 0, calls |-> 0,
   errs |-> << >>, delayLog |-> << >>, wakeAt |-> 0,
   lastError |-> UndefinedError,
   result |-> [kind |-> "none", value |-> "-"],
   fnValue |-> "-", gates |-> << >>, recorded |-> << >>,
   upstream |-> << >>]

NewRetry(caller, fn, maxRetries, baseDelay, maxDelay) ==
  [NoRetry EXCEPT !.pc = "loop", !.caller = caller, !.fn = fn,
                  !.maxRetries = maxRetries, !.baseDelay = baseDelay,
                  !.maxDelay = maxDelay, !.attempt = 1]

Truthy(x) == x # Undefined /\ x # 0

Pow2(n) == IF n <= 0 THEN 1 ELSE 2 ^ n

MathMin(a, b) == IF a <= b THEN a ELSE b

\* error.statusCode && 400 <= error.statusCode < 500 && error.statusCode !== 429
NonRetryableAll4xx(err) ==
  /\ Truthy(err.statusCode)
  /\ err.statusCode >= 400
  /\ err.statusCode < 500

NonRetryable(err) ==
  /\ Truthy(err.statusCode)
  /\ err.statusCode >= 400
  /\ err.statusCode < 500
  /\ err.statusCode # 429

\* the delay, were the exponent the attempt number
BackoffDelayNextPower(baseDelay, maxDelay, attempt, jitter) ==
  MathMin(baseDelay * Pow2(attempt) + jitter, maxDelay)

BackoffDelay(baseDelay, maxDelay, attempt, jitter) ==
  MathMin(baseDelay * Pow2(attempt - 1) + jitter, maxDelay)

Throw(r, err) ==
  [r EXCEPT !.pc = "done", !.result = [kind |-> "throw", value |-> err]]

Return(r, value) ==
  [r EXCEPT !.pc = "done", !.result = [kind |-> "return", value |-> value]]

\* the for statement's test: the body runs, or the loop ends and lastError
\* is thrown
LoopHead(r) ==
  IF r.attempt <= r.maxRetries THEN [r EXCEPT !.pc = "call"]
  ELSE Throw(r, r.lastError)

\* fn() has been called and its promise is awaited
Invoked(r, gate) ==
  [r EXCEPT !.pc = "wait", !.calls = @ + 1,
            !.gates = IF gate = "-" THEN @ ELSE Append(@, gate)]

\* the catch block at time t, up to the await of the delay or to the throw
CatchNoRetry(r, err, jitter, t) ==
  Throw([r EXCEPT !.lastError = err, !.errs = Append(@, err)], err)

CatchDelayAlways(r, err, jitter, t) ==
  LET r1 == [r EXCEPT !.lastError = err, !.errs = Append(@, err)]
      d == BackoffDelay(r.baseDelay, r.maxDelay, r.attempt, jitter)
  IN IF NonRetryable(err) THEN Throw(r1, err)
     ELSE [r1 EXCEPT !.pc = "delay", !.delayLog = Append(@, d),
                     !.wakeAt = t + d]

Catch(r, err, jitter, t) ==
  LET r1 == [r EXCEPT !.lastError = err, !.errs = Append(@, err)]
      d == BackoffDelay(r.baseDelay, r.maxDelay, r.attempt, jitter)
  IN IF NonRetryable(err) THEN Throw(r1, err)
     ELSE IF r1.attempt < r1.maxRetries
       THEN [r1 EXCEPT !.pc = "delay", !.delayLog = Append(@, d),
                       !.wakeAt = t + d]
       ELSE Throw([r1 EXCEPT !.attempt = @ + 1], r1.lastError)

InitRetry == retry = NoRetry

\* From the loop test to the next await.  fn is called in the same turn; a
\* julesRequest that the breaker rejects has its rejection caught before any
\* other handler runs.
EnterLoop(r0, jitter) ==
  LET r == LoopHead(r0) IN
  IF r.pc = "done" THEN
    /\ retry' = r
    /\ UNCHANGED upVars
  ELSE IF r.fn = "op" THEN
    /\ retry' = Invoked(r, "-")
    /\ UNCHANGED upVars
  ELSE
    LET b == ApplyCalls(Breaker, <<"isOpen">>, now) IN
    /\ b.open \/ inflight < MaxInflight
    /\ UseBreaker("julesRequest", <<"isOpen">>, b,
                  IF b.open THEN "rejected" ELSE "attempted")
    /\ inflight' = IF b.open THEN inflight ELSE inflight + 1
    /\ retry' = IF b.open
                  THEN Catch(Invoked(r, "rejected"),
                             [statusCode |-> Undefined, by |-> r.calls + 1,
                              msg |-> "breakerOpen"], jitter, now)
                  ELSE Invoked(r, "attempted")

Idle == retry.pc \in { "idle", "done" }

\* retryWithBackoff(fn, { maxRetries, maxDelay }) on an operation that does not
\* use the breaker
RetryWithBackoff(maxRetries, maxDelay, jitter) ==
  /\ Idle
  /\ EnterLoop(NewRetry("retryWithBackoff", "op", maxRetries,
                        DefaultBaseDelay, maxDelay), jitter)
  /\ UNCHANGED now
  /\ UNCHANGED cacheVars
  /\ UNCHANGED queueVars
  /\ UNCHANGED webVars

\* the awaited promise of the operation settles
OpSettle(ok, value, code, jitter) ==
  /\ retry.pc = "wait"
  /\ retry.fn = "op"
  /\ retry' = IF ok THEN Return([retry EXCEPT !.fnValue = value], value)
              ELSE Catch(retry, [statusCode |-> code, by |-> retry.calls,
                                 msg |-> "op"], jitter, now)
  /\ UNCHANGED now
  /\ UNCHANGED upVars
  /\ UNCHANGED cacheVars
  /\ UNCHANGED queueVars
  /\ UNCHANGED webVars

\* the timer of the delay fires; the next iteration starts
RetryWake(jitter) ==
  /\ retry.pc = "delay"
  /\ now >= retry.wakeAt
  /\ EnterLoop([retry EXCEPT !.attempt = @ + 1], jitter)
  /\ UNCHANGED now
  /\ UNCHANGED cacheVars
  /\ UNCHANGED queueVars
  /\ UNCHANGED webVars

\* apiCache.invalidate(pattern) called from another handler
ApiCacheInvalidate(pattern) ==
  LET c2 == LRUInvalidate(cache, pattern) IN
  /\ cache' = c2
  /\ useOrder' = SelectSeq(useOrder, LAMBDA k : MapHas(c2, k))
  /\ cacheOp' = [op |-> "invalidate", key |-> pattern, hit |-> FALSE,
                 ret |-> Null, n |-> Len(cache)]
  /\ UNCHANGED <<maxSize, defaultTTL, lastSet>>

\* cancelSession up to the first await inside retryWithBackoff; what follows
\* the retried call (invalidateCaches of the middleware) touches no state kept
\* here
CancelSession(sessionId, jitter) ==
  /\ Idle
  /\ ApiCacheInvalidate(sessionId)
  /\ EnterLoop(NewRetry("cancelSession", "julesRequest", WrappedMaxRetries,
                        DefaultBaseDelay, DefaultMaxDelay), jitter)
  /\ UNCHANGED now
  /\ UNCHANGED queueVars
  /\ UNCHANGED webVars

\* deleteSession up to the first await inside retryWithBackoff
DeleteSession(sessionId, jitter) ==
  /\ Idle
  /\ ApiCacheInvalidate(sessionId)
  /\ EnterLoop(NewRetry("deleteSession", "julesRequest", WrappedMaxRetries,
                        DefaultBaseDelay, DefaultMaxDelay), jitter)
  /\ UNCHANGED now
  /\ UNCHANGED queueVars
  /\ UNCHANGED webVars

\* response.statusCode of the upstream answer behind each outcome
HttpStatuses == { 404, 429, 503 }

StatusOf(outcome) ==
  IF outcome = "ok" THEN { 200 }
  ELSE IF outcome = "httpError" THEN HttpStatuses
  ELSE { 0 }

\* the response, error or timeout handlers of the request of a retried call;
\* the Error they reject with has a message and no statusCode property
\* invalidateCache(path) for each path in turn (part_002:211-219), as the
\* mutating operations of index.js call it once their upstream call has
\* returned: nothing happens unless the cache is enabled and connected.
\* History: a request whose handler is suspended while its path is
\* invalidated is marked overtaken.
CacheDel(rd, paths) ==
  IF rd.enabled /\ rd.isRedisConnected
    THEN [rd EXCEPT !.store =
            [ k \in DOMAIN @ |->
                IF \E p \in paths : k = <<"cache:", p>>
                  THEN [value |-> [kind |-> "nil", of |-> "-"], ttl |-> 0,
                        exp |-> 0]
                  ELSE @[k] ]]
    ELSE rd

MarkOvertaken(rd, rs, paths) ==
  IF rd.enabled /\ rd.isRedisConnected
    THEN [ s \in DOMAIN rs |->
             IF rs[s].pc = "handler" /\ rs[s].req.path \in paths
               THEN [rs[s] EXCEPT !.overtaken = TRUE]
               ELSE rs[s] ]
    ELSE rs

SessionListPaths == { "/api/sessions/active", "/api/sessions/stats" }

WrappedSettle(outcome, status, jitter) ==
  LET calls == OutcomeCalls(outcome)
      r == [retry EXCEPT !.recorded = @ \o calls,
                         !.upstream = Append(@, status)]
  IN
  /\ retry.pc = "wait"
  /\ retry.fn = "julesRequest"
  /\ status \in StatusOf(outcome)
  /\ UseBreaker("complete", calls, ApplyCalls(Breaker, calls, now), outcome)
  /\ inflight' = inflight - 1
  /\ retry' = IF outcome = "ok"
                THEN Return([r EXCEPT !.fnValue = "body"], "body")
              ELSE Catch(r, [statusCode |-> Undefined, by |-> r.calls,
                             msg |-> outcome], jitter, now)
  /\ IF outcome = "ok" /\ retry.caller = "cancelSession"
       THEN /\ redis' = CacheDel(redis, SessionListPaths)
            /\ reqs' = MarkOvertaken(redis, reqs, SessionListPaths)
       ELSE UNCHANGED <<redis, reqs>>
  /\ UNCHANGED server
  /\ UNCHANGED now
  /\ UNCHANGED cacheVars
  /\ UNCHANGED queueVars
  /\ UNCHANGED limVars
  /\ UNCHANGED bucketVars
  /\ UNCHANGED rlVars
  /\ UNCHANGED procVars

\* ------------------------------------------- /mcp/ rate limit middleware
Ips == { "ip1" }

MathCeilDiv(a, b) == (a + b - 1) \div b

\* the while loop, were it to stop at request times equal to windowStart
RemoveCountStrict(requests, windowStart) ==
  CHOOSE n \in 0..Len(requests) :
    /\ \A i \in 1..n : requests[i] < windowStart
    /\ n = Len(requests) \/ requests[n + 1] >= windowStart

\* the while loop: the number of leading request times <= windowStart
RemoveCount(requests, windowStart) ==
  CHOOSE n \in 0..Len(requests) :
    /\ \A i \in 1..n : requests[i] <= windowStart
    /\ n = Len(requests) \/ requests[n + 1] > windowStart

\* requests.splice(0, removeCount)
SpliceFront(requests, n) == SubSeq(requests, n + 1, Len(requests))

\* the middleware, were it to reject only beyond RATE_LIMIT_MAX + 1
RateLimitOffByOne(store, ip, t) ==
  LET requests == IF MapHas(store, ip) THEN MapGet(store, ip).value ELSE << >>
      kept == SpliceFront(requests, RemoveCount(requests, t - RateLimitWindow))
      pushed == Append(kept, t)
      over == Len(pushed) > RateLimitMax + 1
  IN [store |-> MapSet(store, ip, [key |-> ip, value |-> pushed]),
      status |-> IF over THEN 429 ELSE 0,
      retryAfter |-> IF over THEN MathCeilDiv(RateLimitWindow, 1000) ELSE 0,
      remaining |-> IF over THEN 0 ELSE RateLimitMax - Len(pushed),
      n |-> Len(pushed)]

\* the middleware for ip at time t: the store it leaves and its answer
\* (status 0: next() was called)
RateLimit(store, ip, t) ==
  LET requests == IF MapHas(store, ip) THEN MapGet(store, ip).value ELSE << >>
      kept == SpliceFront(requests, RemoveCount(requests, t - RateLimitWindow))
      pushed == Append(kept, t)
      over == Len(pushed) > RateLimitMax
  IN [store |-> MapSet(store, ip, [key |-> ip, value |-> pushed]),
      status |-> IF over THEN 429 ELSE 0,
      retryAfter |-> IF over THEN MathCeilDiv(RateLimitWindow, 1000) ELSE 0,
      remaining |-> IF over THEN 0 ELSE RateLimitMax - Len(pushed),
      n |-> Len(pushed)]

\* history: no request of the caller has been seen
NoPrev == [at |-> 0 - 1, status |-> 0, retryAfter |-> 0]

\* history: the request times in log that lie less than RATE_LIMIT_WINDOW
\* before t
Recent(log, t) == SelectSeq(log, LAMBDA ts : t - ts < RateLimitWindow)

\* history of the middleware's run for ip at time t with answer a: the
\* answer, the time and answer of the caller's request before this one,
\* and the caller's requests (sent) and the ones passed to next()
\* (admitted) in the RATE_LIMIT_WINDOW ending at t
LimOp(ip, a, t) ==
  [op |-> "request", ip |-> ip, status |-> a.status,
   retryAfter |-> a.retryAfter, remaining |-> a.remaining,
   at |-> t,
   prev |-> IF limOp.op = "request"
              THEN [at |-> limOp.at, status |-> limOp.status,
                    retryAfter |-> limOp.retryAfter]
              ELSE limOp.prev,
   sent |-> Append(Recent(limOp.sent, t), t),
   admitted |-> IF a.status = 429 THEN Recent(limOp.admitted, t)
                ELSE Append(Recent(limOp.admitted, t), t)]

InitLimiter ==
  /\ rateLimitStore = << >>
  /\ limOp = [op |-> "new", ip |-> "-", status |-> 0, retryAfter |-> 0,
              remaining |-> 0, at |-> 0, prev |-> NoPrev, sent |-> << >>,
              admitted |-> << >>]

\* one request under /mcp/ reaching the middleware
McpRequest(ip) ==
  LET r == RateLimit(rateLimitStore, ip, now) IN
  /\ r.n <= RateLimitMax + MaxOver
  /\ rateLimitStore' = r.store
  /\ limOp' = LimOp(ip, r, now)
  /\ UNCHANGED now
  /\ UNCHANGED cacheVars
  /\ UNCHANGED queueVars
  /\ UNCHANGED upVars
  /\ UNCHANGED retryVars
  /\ UNCHANGED bucketVars
  /\ UNCHANGED rlVars
  /\ UNCHANGED httpVars
  /\ UNCHANGED procVars

\* ------------------------------------------------ token bucket (spec 4.1)
\* Token counts are kept in units of 1/60000 token, so that a refill rate
\* given in tokens per minute adds refillPerMinute units per millisecond.
TokenUnit == 60000

Identities == { "free1", "ent1" }
Routes == { "/mcp/" }
BucketKeys == Identities \X Routes

TierOf(identity) == IF identity = "ent1" THEN "enterprise" ELSE "free"

TierConfig(tier) ==
  IF tier = "enterprise"
    THEN [burstCapacity |-> 2, refillPerMinute |-> 1, costPerRequest |-> 1,
          bypassRateLimiting |-> TRUE]
    ELSE [burstCapacity |-> 3, refillPerMinute |-> 2, costPerRequest |-> 1,
          bypassRateLimiting |-> FALSE]

NoBucket == [tokens |-> -1, lastRefill |-> -1]

\* elapsed x refillRate added to the balance, capped at burst capacity
RefillNoCap(b, cfg, t) ==
  b.tokens + (t - b.lastRefill) * cfg.refillPerMinute

Refill(b, cfg, t) ==
  MathMin(b.tokens + (t - b.lastRefill) * cfg.refillPerMinute,
          cfg.burstCapacity * TokenUnit)

\* admit(identity, route) at time t on bucket b0 (NoBucket: first request)
Admit(b0, cfg, t) ==
  LET b == IF b0 = NoBucket
             THEN [tokens |-> cfg.burstCapacity * TokenUnit, lastRefill |-> t]
             ELSE b0
      refilled == Refill(b, cfg, t)
      after == refilled - cfg.costPerRequest * TokenUnit
  IN IF after >= 0
       THEN [bucket |-> [tokens |-> after, lastRefill |-> t],
             allowed |-> TRUE, remaining |-> after, resetAfter |-> 0]
       ELSE [bucket |-> b0,
             allowed |-> cfg.bypassRateLimiting, remaining |-> 0,
             resetAfter |-> MathCeilDiv(0 - after, cfg.refillPerMinute)]

InitBuckets ==
  /\ buckets = [ k \in BucketKeys |-> NoBucket ]
  /\ bkOp = [op |-> "new", key |-> <<"-", "-">>, allowed |-> FALSE,
             remaining |-> 0, resetAfter |-> 0, refilled |-> 0]

AdmitRequest(identity, route) ==
  LET k == <<identity, route>>
      cfg == TierConfig(TierOf(identity))
      r == Admit(buckets[k], cfg, now)
  IN
  /\ buckets' = [buckets EXCEPT ![k] = r.bucket]
  /\ bkOp' = [op |-> "admit", key |-> k, allowed |-> r.allowed,
              remaining |-> r.remaining, resetAfter |-> r.resetAfter,
              refilled |-> IF buckets[k] = NoBucket THEN 0
                           ELSE (now - buckets[k].lastRefill) * cfg.refillPerMinute]
  /\ UNCHANGED now
  /\ UNCHANGED cacheVars
  /\ UNCHANGED queueVars
  /\ UNCHANGED upVars
  /\ UNCHANGED retryVars
  /\ UNCHANGED limVars
  /\ UNCHANGED rlVars
  /\ UNCHANGED httpVars
  /\ UNCHANGED procVars

\* ------------------------------------- rate limiter integration (part_002)
\* A RedisRateLimiter instance is [id, strategy, connected]; id tells the
\* instances apart.  rl holds
\*   made       instances constructed so far
\*   init       the instance whose initialize() an initializeRateLimiter call
\*              awaits (0: no such call)
\*   closing    the instance whose close() a closeRateLimiter call awaits
\*   started    history: initializeRateLimiter has returned and closeRateLimiter
\*              has not completed since
ApiKeys == { "k1" }
TierNames == { "free", "pro" }
DefaultTier == "free"

NoLimiter == [id |-> 0, strategy |-> "-", connected |-> FALSE]

NewLimiter(id, strategy) ==
  [id |-> id, strategy |-> strategy, connected |-> FALSE]

InitIntegration ==
  /\ rateLimiter = NoLimiter
  /\ tiers = [ k \in ApiKeys |-> DefaultTier ]
  /\ rl = [made |-> 0, init |-> 0, closing |-> 0, started |-> FALSE]
  /\ rlOp = [op |-> "new", ret |-> "-", inst |-> 0, started |-> FALSE,
             changed |-> FALSE]

RlFrame ==
  /\ UNCHANGED now
  /\ UNCHANGED cacheVars
  /\ UNCHANGED queueVars
  /\ UNCHANGED upVars
  /\ UNCHANGED retryVars
  /\ UNCHANGED limVars
  /\ UNCHANGED bucketVars
  /\ UNCHANGED httpVars
  /\ UNCHANGED procVars

\* initializeRateLimiter up to its return or to the await of initialize()
InitializeRateLimiter ==
  /\ rl.init = 0
  /\ IF rateLimiter # NoLimiter
       THEN /\ rlOp' = [op |-> "initialize", ret |-> "resolved",
                        inst |-> rateLimiter.id, started |-> rl.started,
                        changed |-> FALSE]
            /\ rl' = [rl EXCEPT !.started = TRUE]
            /\ UNCHANGED rateLimiter
       ELSE /\ rl.made < MaxLimiters
            /\ rateLimiter' = NewLimiter(rl.made + 1, "configured")
            /\ rl' = [rl EXCEPT !.made = @ + 1, !.init = rl.made + 1]
            /\ UNCHANGED rlOp
  /\ UNCHANGED tiers
  /\ RlFrame

\* rateLimiter.initialize() settles: it resolves true or false, or rejects
InitializeSettle(outcome) ==
  /\ rl.init # 0
  /\ IF outcome = "throws"
       THEN /\ rl.made < MaxLimiters
            /\ rateLimiter' = NewLimiter(rl.made + 1, "fail-closed")
            /\ rl' = [rl EXCEPT !.made = @ + 1, !.init = 0, !.started = TRUE]
       ELSE /\ rateLimiter' =
                 IF rateLimiter.id = rl.init
                   THEN [rateLimiter EXCEPT !.connected = (outcome = "connected")]
                   ELSE rateLimiter
            /\ rl' = [rl EXCEPT !.init = 0, !.started = TRUE]
  /\ rlOp' = [op |-> "initialize", ret |-> "resolved",
              inst |-> rateLimiter'.id, started |-> rl.started,
              changed |-> (outcome = "throws")]
  /\ UNCHANGED tiers
  /\ RlFrame

\* getRateLimiterMiddleware
GetRateLimiterMiddleware ==
  /\ IF rateLimiter = NoLimiter
       THEN /\ rl.made < MaxLimiters
            /\ rateLimiter' = NewLimiter(rl.made + 1, "configured")
            /\ rl' = [rl EXCEPT !.made = @ + 1]
       ELSE UNCHANGED <<rateLimiter, rl>>
  /\ rlOp' = [op |-> "getMiddleware", ret |-> "middleware",
              inst |-> rateLimiter'.id, started |-> rl.started,
              changed |-> rateLimiter = NoLimiter]
  /\ UNCHANGED tiers
  /\ RlFrame

\* setApiKeyTier: the guard, then rateLimiter.setTier(apiKey, tier)
SetApiKeyTier(apiKey, tier) ==
  /\ IF rateLimiter = NoLimiter
       THEN /\ rlOp' = [op |-> "setTier", ret |-> "notInitialized", inst |-> 0,
                        started |-> rl.started, changed |-> FALSE]
            /\ UNCHANGED tiers
       ELSE /\ tiers' = [tiers EXCEPT ![apiKey] = tier]
            /\ rlOp' = [op |-> "setTier", ret |-> "delegated",
                        inst |-> rateLimiter.id, started |-> rl.started,
                        changed |-> tiers[apiKey] # tier]
  /\ UNCHANGED <<rateLimiter, rl>>
  /\ RlFrame

\* getApiKeyTier: the guard, then rateLimiter.getTier(apiKey)
GetApiKeyTier(apiKey) ==
  /\ rlOp' = IF rateLimiter = NoLimiter
               THEN [op |-> "getTier", ret |-> "notInitialized", inst |-> 0,
                     started |-> rl.started, changed |-> FALSE]
               ELSE [op |-> "getTier", ret |-> tiers[apiKey],
                     inst |-> rateLimiter.id, started |-> rl.started,
                     changed |-> FALSE]
  /\ UNCHANGED <<rateLimiter, tiers, rl>>
  /\ RlFrame

\* closeRateLimiter up to its return or to the await of close()
CloseRateLimiter ==
  /\ rl.closing = 0
  /\ IF rateLimiter = NoLimiter
       THEN /\ rlOp' = [op |-> "close", ret |-> "resolved", inst |-> 0,
                        started |-> rl.started, changed |-> FALSE]
            /\ UNCHANGED rl
       ELSE /\ rl' = [rl EXCEPT !.closing = rateLimiter.id]
            /\ UNCHANGED rlOp
  /\ UNCHANGED <<rateLimiter, tiers>>
  /\ RlFrame

\* rateLimiter.close() settles; when it resolves, rateLimiter = null
CloseSettle(ok) ==
  /\ rl.closing # 0
  /\ rateLimiter' = IF ok THEN NoLimiter ELSE rateLimiter
  /\ rl' = [rl EXCEPT !.closing = 0, !.started = IF ok THEN FALSE ELSE @]
  /\ rlOp' = [op |-> "close", ret |-> IF ok THEN "resolved" ELSE "rejected",
              inst |-> rl.closing, started |-> rl.started,
              changed |-> ok /\ rateLimiter # NoLimiter]
  /\ UNCHANGED tiers
  /\ RlFrame

\* ------------------------------------- response cache (part_002, index.js)
\* A request is [method, originalUrl, path, mcp]; mcp tells whether the path
\* lies under the mount point '/mcp/' of the rate limit middleware.
CacheDefaultTtl == 300

GetTools ==
  [method |-> "GET", originalUrl |-> "/mcp/tools", path |-> "/mcp/tools",
   mcp |-> TRUE]
GetToolsQuery ==
  [method |-> "GET", originalUrl |-> "/mcp/tools?v=1", path |-> "/mcp/tools",
   mcp |-> TRUE]
PostTools ==
  [method |-> "POST", originalUrl |-> "/mcp/tools", path |-> "/mcp/tools",
   mcp |-> TRUE]
GetActive ==
  [method |-> "GET", originalUrl |-> "/api/sessions/active",
   path |-> "/api/sessions/active", mcp |-> FALSE]
GetStats ==
  [method |-> "GET", originalUrl |-> "/api/sessions/stats",
   path |-> "/api/sessions/stats", mcp |-> FALSE]
GetTimeline ==
  [method |-> "GET", originalUrl |-> "/api/sessions/s1/timeline",
   path |-> "/api/sessions/s1/timeline", mcp |-> FALSE]

Requests == { GetTools, GetToolsQuery, PostTools, GetActive, GetStats,
              GetTimeline }
NoRequest == [method |-> "-", originalUrl |-> "-", path |-> "-", mcp |-> FALSE]
Slots == { 1 }

\* JavaScript values that travel through res.json, res.send and the store:
\* an object, the JSON text of an object, or nothing.
NoBody == [kind |-> "nil", of |-> "-"]
Object(name) == [kind |-> "object", of |-> name]
JsonStringify(obj) == [kind |-> "text", of |-> obj.of]
JsonParse(text) == [kind |-> "object", of |-> text.of]

GetCacheKey(req) == <<"cache:", req.originalUrl>>

GetTtlForPath(path) ==
  IF path = "/mcp/tools" THEN 3600
  ELSE IF path = "/api/sessions/stats" THEN 30
  ELSE IF path = "/api/sessions/active" THEN 10
  ELSE CacheDefaultTtl

CacheKeys == { GetCacheKey(q) : q \in Requests }

\* the store: an entry is the value, the TTL it was set with (s) and the
\* instant it expires (ms)
NoEntry == [value |-> NoBody, ttl |-> 0, exp |-> 0]

RedisGet(store, key, t) ==
  IF store[key] # NoEntry /\ t < store[key].exp THEN store[key].value
  ELSE NoBody

RedisSetEx(store, key, ttl, value, t) ==
  [store EXCEPT ![key] = [value |-> value, ttl |-> ttl, exp |-> t + ttl * 1000]]

RedisDel(store, key) ==
  IF key \in DOMAIN store THEN [store EXCEPT ![key] = NoEntry] ELSE store

\* One request being served.
\*   pc       idle, get1 (the cacheMiddleware of index.js:120 awaits the read),
\*            get2 (the route's own cacheMiddleware awaits the read), handler
\*            (the route handler awaits the session monitor), done
\*   layers   what each cacheMiddleware invocation did: bypass, hit or miss; a
\*            miss has replaced res.send by a wrapper
\*   history: conn (for each invocation, whether it found the cache enabled
\*            and connected), reads, writes (the setEx commands that reached
\*            the store), cached (the value a hit read), handlerRan, limited,
\*            overtaken (the path was invalidated while the handler waited)
NoReq ==
  [pc |-> "idle", req |-> NoRequest, ip |-> "-", layers |-> << >>,
   conn |-> << >>,
   xCache |-> "-", status |-> 0, body |-> NoBody, handlerRan |-> FALSE,
   limited |-> "-", reads |-> 0, writes |-> << >>, cached |-> NoBody,
   overtaken |-> FALSE]

Wrappers(r) == Cardinality({ i \in 1..Len(r.layers) : r.layers[i] = "miss" })

Connected == redis.enabled /\ redis.isRedisConnected

BypassAnyMethod(req) ==
  \/ ~redis.enabled
  \/ ~redis.isRedisConnected

Bypass(req) ==
  \/ ~redis.enabled
  \/ ~redis.isRedisConnected
  \/ req.method # "GET"

\* what a step leaves behind: the request, the store, the rate limit log and
\* the answer of the rate limiter
Out(r, store) == [r |-> r, store |-> store, lim |-> rateLimitStore, limOp |-> limOp]

\* res.send as the response sees it: every wrapper installed by a miss stores
\* the text of a 2xx response, then the text is sent.  A body that is an
\* object (res.json, or res.send on the hit path) reaches the wrappers a
\* second time as text through res.json, and only the text is accepted by
\* the store.
ResSendAnyStatus(r, store, status, obj) ==
  LET text == JsonStringify(obj)
      n == Wrappers(r)
      stores == n > 0
      w == [key |-> GetCacheKey(r.req), ttl |-> GetTtlForPath(r.req.path),
            value |-> text]
  IN Out([r EXCEPT !.pc = "done", !.status = status, !.body = text,
                   !.writes = IF stores THEN [i \in 1..n |-> w] ELSE << >>],
         IF stores THEN RedisSetEx(store, w.key, w.ttl, w.value, now)
         ELSE store)

ResSend(r, store, status, obj) ==
  LET text == JsonStringify(obj)
      n == Wrappers(r)
      stores == n > 0 /\ status >= 200 /\ status < 300
      w == [key |-> GetCacheKey(r.req), ttl |-> GetTtlForPath(r.req.path),
            value |-> text]
  IN Out([r EXCEPT !.pc = "done", !.status = status, !.body = text,
                   !.writes = IF stores THEN [i \in 1..n |-> w] ELSE << >>],
         IF stores THEN RedisSetEx(store, w.key, w.ttl, w.value, now)
         ELSE store)

\* the routes of index.js that matter to the cache
RouteOf(req) ==
  IF req.method # "GET" THEN "notFound"
  ELSE IF req.path = "/mcp/tools" THEN "tools"
  ELSE IF req.path = "/api/sessions/active" THEN "active"
  ELSE IF req.path = "/api/sessions/stats" THEN "stats"
  ELSE "timeline"

HasRouteCache(req) == RouteOf(req) \in { "tools", "active", "stats" }

\* the route handler up to its response or to its await; no route: the 404
\* handler
Handler(r, store) ==
  LET route == RouteOf(r.req) IN
  IF route = "notFound" THEN ResSend(r, store, 404, Object("notFound"))
  ELSE IF route = "tools"
    THEN ResSend([r EXCEPT !.handlerRan = TRUE], store, 200, Object("tools"))
  ELSE IF ~server.sessionMonitor
    THEN ResSend([r EXCEPT !.handlerRan = TRUE], store, 503,
                 Object("monitorNotInitialized"))
  ELSE Out([r EXCEPT !.handlerRan = TRUE, !.pc = "handler"], store)

\* the route's own cacheMiddleware up to its await, then the handler
RouteLayer(r, store) ==
  LET e == [r EXCEPT !.conn = Append(@, Connected)] IN
  IF ~HasRouteCache(r.req) THEN Handler(r, store)
  ELSE IF Bypass(r.req)
    THEN Handler([e EXCEPT !.layers = Append(@, "bypass")], store)
  ELSE Out([e EXCEPT !.pc = "get2"], store)

\* the rate limit middleware mounted at '/mcp/', then the routes
RateLimiter(r, store) ==
  IF ~r.req.mcp THEN RouteLayer(r, store)
  ELSE
    LET a == RateLimit(rateLimitStore, r.ip, now)
        op == LimOp(r.ip, a, now)
        out == IF a.status = 429
                 THEN ResSend([r EXCEPT !.limited = "rejected"], store, 429,
                              Object("tooManyRequests"))
                 ELSE RouteLayer([r EXCEPT !.limited = "admitted"], store)
    IN [out EXCEPT !.lim = a.store, !.limOp = op]

InitHttp ==
  /\ redis = [enabled |-> FALSE, isRedisConnected |-> FALSE,
              store |-> [ k \in CacheKeys |-> NoEntry ]]
  /\ reqs = [ s \in Slots |-> NoReq ]
  /\ server = [sessionMonitor |-> FALSE, received |-> 0]

\* CACHE_ENABLED comes from the environment; the session monitor exists once
\* startup has created it
InitHttpAny ==
  /\ redis \in [enabled : BOOLEAN, isRedisConnected : { FALSE },
                store : { [ k \in CacheKeys |-> NoEntry ] }]
  /\ reqs = [ s \in Slots |-> NoReq ]
  /\ server \in [sessionMonitor : BOOLEAN, received : { 0 }]

HttpFrame ==
  /\ UNCHANGED now
  /\ UNCHANGED cacheVars
  /\ UNCHANGED queueVars
  /\ UNCHANGED upVars
  /\ UNCHANGED retryVars
  /\ UNCHANGED bucketVars
  /\ UNCHANGED rlVars
  /\ UNCHANGED procVars

Apply(slot, out) ==
  /\ reqs' = [reqs EXCEPT ![slot] = out.r]
  /\ redis' = [redis EXCEPT !.store = out.store]
  /\ rateLimitStore' = out.lim
  /\ limOp' = out.limOp

\* a request arrives: cacheMiddleware (index.js:120) up to its await, or
\* all the way down to the response when the cache is bypassed
Receive(slot, req, ip) ==
  /\ reqs[slot].pc \in { "idle", "done" }
  /\ server.received < MaxRequests
  /\ req.mcp => RateLimit(rateLimitStore, ip, now).n <= RateLimitMax + MaxOver
  /\ LET r == [NoReq EXCEPT !.req = req, !.ip = ip, !.conn = << Connected >>] IN
     Apply(slot,
           IF Bypass(req)
             THEN RateLimiter([r EXCEPT !.layers = << "bypass" >>], redis.store)
             ELSE Out([r EXCEPT !.pc = "get1"], redis.store))
  /\ server' = [server EXCEPT !.received = @ + 1]
  /\ HttpFrame

\* redisClient.get settles in either cacheMiddleware invocation: with the
\* stored value, with null, or with an error (treated like null)
CacheGetSettle(slot, ok) ==
  LET r == reqs[slot]
      cachedResponse == IF ok THEN RedisGet(redis.store, GetCacheKey(r.req), now)
                        ELSE NoBody
      read == [r EXCEPT !.reads = @ + 1]
      hit == [read EXCEPT !.layers = Append(@, "hit"), !.xCache = "hit",
                          !.cached = cachedResponse]
      miss == [read EXCEPT !.layers = Append(@, "miss"), !.xCache = "miss"]
  IN
  /\ r.pc \in { "get1", "get2" }
  /\ Apply(slot,
           IF cachedResponse # NoBody
             THEN ResSend(hit, redis.store, 200, JsonParse(cachedResponse))
           ELSE IF r.pc = "get1" THEN RateLimiter(miss, redis.store)
           ELSE Handler(miss, redis.store))
  /\ UNCHANGED server
  /\ HttpFrame

\* the session monitor answers the handler of a sessions route, or throws
HandlerSettle(slot, ok) ==
  LET r == reqs[slot] IN
  /\ r.pc = "handler"
  /\ Apply(slot,
           IF ok THEN ResSend(r, redis.store, 200, Object(RouteOf(r.req)))
           ELSE ResSend(r, redis.store, 500, Object("error")))
  /\ UNCHANGED server
  /\ HttpFrame

\* the 'connect' and 'error' events of the client
RedisConnect ==
  /\ redis.enabled
  /\ ~redis.isRedisConnected
  /\ redis' = [redis EXCEPT !.isRedisConnected = TRUE]
  /\ UNCHANGED <<reqs, server>>
  /\ UNCHANGED limVars
  /\ HttpFrame

RedisError ==
  /\ redis.enabled
  /\ redis.isRedisConnected
  /\ redis' = [redis EXCEPT !.isRedisConnected = FALSE]
  /\ UNCHANGED <<reqs, server>>
  /\ UNCHANGED limVars
  /\ HttpFrame

\* invalidateCache(path)
InvalidateCache(path) ==
  /\ redis.enabled
  /\ redis.isRedisConnected
  /\ redis' = [redis EXCEPT !.store = RedisDel(@, <<"cache:", path>>)]
  /\ reqs' = MarkOvertaken(redis, reqs, { path })
  /\ UNCHANGED server
  /\ UNCHANGED limVars
  /\ HttpFrame

\* --------------------------------------------- processQueue (index.js:988)
\* pq.workers[w] is one processQueue invocation:
\*   pc      idle; sources (createJulesSession awaits GET /sources); create
\*           (it awaits POST /sessions); rejected (createJulesSession has
\*           thrown and the catch of processQueue has not run yet)
\*   id      the item it took, err the message of what was thrown
\* pq.handed is history: the ids passed to createJulesSession, in order.
Invocations == { 1, 2 }
ProcessConfigs == { "cfgA", "cfgB", "cfgBad" }

\* sessionCreateSchema.validate(config), and config.branch
ConfigValid(config) == config # "cfgBad"
ConfigHasBranch(config) == config = "cfgA"

\* session.name?.split('/').pop() || session.id for the sessions the
\* upstream creates
SessionBodies == { "named", "idOnly" }
SessionIdOf(body) == IF body = "named" THEN "sess1" ELSE "id1"

\* how a request of createJulesSession ends: 2xx, another status, or a
\* timeout before any response
ProcessOutcomes == { "ok", "httpError", "timeoutNoResponse" }

NoWorker == [pc |-> "idle", id |-> NoId, err |-> None]

InitProcess == pq = [workers |-> [ w \in Invocations |-> NoWorker ],
                     handed |-> << >>]

ItemOf(q, id) == q[FindIndex(q, id)]

ProcFrame ==
  /\ UNCHANGED <<maxRetained, nextId, now, inflight>>
  /\ UNCHANGED cacheVars
  /\ UNCHANGED retryVars
  /\ UNCHANGED limVars
  /\ UNCHANGED bucketVars
  /\ UNCHANGED rlVars
  /\ UNCHANGED httpVars

SetWorker(w, pc, id, err) ==
  [pq EXCEPT !.workers[w] = [pc |-> pc, id |-> id, err |-> err]]

\* processQueue up to its first suspension: getNext, markProcessing, then
\* createJulesSession up to its throw or its first request
ProcessQueueStartNoMark(w) ==
  LET next == QGetNext(queue)
      config == ItemOf(queue, next).config
      calls == IF ConfigHasBranch(config) THEN << "isOpen" >>
               ELSE << "isOpen", "isOpen" >>
      b == ApplyCalls(Breaker, << "isOpen" >>, now)
  IN
  /\ pq.workers[w].pc = "idle"
  /\ IF next = NoId
       THEN /\ qOp' = [op |-> "processQueue", id |-> NoId, ret |-> NoId,
                       dropped |-> 0]
            /\ UNCHANGED <<queue, doneOrder, pq>>
            /\ UNCHANGED <<failures, lastFailure, hist, cbOp>>
       ELSE /\ queue' = queue
            /\ doneOrder' = StillDone(doneOrder, queue')
            /\ qOp' = [op |-> "processQueue", id |-> next, ret |-> next,
                       dropped |-> 0]
            /\ IF ~ConfigValid(config)
                 THEN /\ pq' = [SetWorker(w, "rejected", next, "validation")
                                  EXCEPT !.handed = Append(@, next)]
                      /\ UNCHANGED <<failures, lastFailure, hist, cbOp>>
               ELSE IF b.open
                 THEN /\ pq' = [SetWorker(w, "rejected", next, "breakerOpen")
                                  EXCEPT !.handed = Append(@, next)]
                      /\ UseBreaker("julesRequest", calls,
                                    ApplyCalls(Breaker, calls, now), "rejected")
               ELSE /\ pq' = [SetWorker(w, IF ConfigHasBranch(config)
                                             THEN "create" ELSE "sources",
                                        next, None)
                                EXCEPT !.handed = Append(@, next)]
                    /\ UseBreaker("julesRequest", << "isOpen" >>, b, "attempted")
  /\ ProcFrame

ProcessQueueStart(w) ==
  LET next == QGetNext(queue)
      config == ItemOf(queue, next).config
      calls == IF ConfigHasBranch(config) THEN << "isOpen" >>
               ELSE << "isOpen", "isOpen" >>
      b == ApplyCalls(Breaker, << "isOpen" >>, now)
  IN
  /\ pq.workers[w].pc = "idle"
  /\ IF next = NoId
       THEN /\ qOp' = [op |-> "processQueue", id |-> NoId, ret |-> NoId,
                       dropped |-> 0]
            /\ UNCHANGED <<queue, doneOrder, pq>>
            /\ UNCHANGED <<failures, lastFailure, hist, cbOp>>
       ELSE /\ queue' = QMarkProcessing(queue, next)
            /\ doneOrder' = StillDone(doneOrder, queue')
            /\ qOp' = [op |-> "processQueue", id |-> next, ret |-> next,
                       dropped |-> 0]
            /\ IF ~ConfigValid(config)
                 THEN /\ pq' = [SetWorker(w, "rejected", next, "validation")
                                  EXCEPT !.handed = Append(@, next)]
                      /\ UNCHANGED <<failures, lastFailure, hist, cbOp>>
               ELSE IF b.open
                 THEN /\ pq' = [SetWorker(w, "rejected", next, "breakerOpen")
                                  EXCEPT !.handed = Append(@, next)]
                      /\ UseBreaker("julesRequest", calls,
                                    ApplyCalls(Breaker, calls, now), "rejected")
               ELSE /\ pq' = [SetWorker(w, IF ConfigHasBranch(config)
                                             THEN "create" ELSE "sources",
                                        next, None)
                                EXCEPT !.handed = Append(@, next)]
                    /\ UseBreaker("julesRequest", << "isOpen" >>, b, "attempted")
  /\ ProcFrame

\* GET /sources settles; whatever it brings, createJulesSession goes on to
\* POST /sessions, whose julesRequest asks the breaker first
SourcesSettle(w, outcome) ==
  LET calls == OutcomeCalls(outcome) \o << "isOpen" >>
      b == ApplyCalls(Breaker, calls, now)
      me == pq.workers[w]
  IN
  /\ me.pc = "sources"
  /\ UseBreaker("complete", calls, b, outcome)
  /\ pq' = IF b.open THEN SetWorker(w, "rejected", me.id, "breakerOpen")
           ELSE SetWorker(w, "create", me.id, None)
  /\ qOp' = [op |-> "sources", id |-> me.id, ret |-> NoId, dropped |-> 0]
  /\ UNCHANGED <<queue, doneOrder>>
  /\ ProcFrame

\* POST /sessions settles: markComplete with the session id, or the catch
\* of processQueue with markFailed
CreateSettle(w, outcome, body) ==
  LET calls == OutcomeCalls(outcome)
      me == pq.workers[w]
  IN
  /\ me.pc = "create"
  /\ UseBreaker("complete", calls, ApplyCalls(Breaker, calls, now), outcome)
  /\ queue' = IF outcome = "ok"
                THEN QMarkComplete(queue, maxRetained, me.id, SessionIdOf(body))
                ELSE QMarkFailed(queue, maxRetained, me.id, outcome)
  /\ doneOrder' = Marked(doneOrder, queue', me.id)
  /\ qOp' = [op |-> IF outcome = "ok" THEN "markComplete" ELSE "markFailed",
             id |-> me.id, ret |-> NoId,
             dropped |-> Len(queue) - Len(queue')]
  /\ pq' = SetWorker(w, "idle", NoId, None)
  /\ ProcFrame

\* the catch of processQueue after createJulesSession has thrown
ProcessQueueCatchNoMark(w) ==
  LET me == pq.workers[w] IN
  /\ me.pc = "rejected"
  /\ queue' = queue
  /\ doneOrder' = Marked(doneOrder, queue', me.id)
  /\ qOp' = [op |-> "markFailed", id |-> me.id, ret |-> NoId,
             dropped |-> Len(queue) - Len(queue')]
  /\ pq' = SetWorker(w, "idle", NoId, None)
  /\ UNCHANGED <<failures, lastFailure, hist, cbOp>>
  /\ ProcFrame

ProcessQueueCatch(w) ==
  LET me == pq.workers[w] IN
  /\ me.pc = "rejected"
  /\ queue' = QMarkFailed(queue, maxRetained, me.id, me.err)
  /\ doneOrder' = Marked(doneOrder, queue', me.id)
  /\ qOp' = [op |-> "markFailed", id |-> me.id, ret |-> NoId,
             dropped |-> Len(queue) - Len(queue')]
  /\ pq' = SetWorker(w, "idle", NoId, None)
  /\ UNCHANGED <<failures, lastFailure, hist, cbOp>>
  /\ ProcFrame

\* ---------------------------------------------------------- specifications
SessionIds == { "sess1" }
Errors == { "err1" }

CallIds == 1..MaxAdds

NextCache ==
  \/ Tick
  \/ \E key \in Keys : CacheGet(key)
  \/ \E key \in Keys, value \in Values, ttl \in TTLs \cup {Undefined} :
       CacheSet(key, value, ttl)
  \/ \E pattern \in Patterns : CacheInvalidate(pattern)
  \/ CacheClear

NextQueue ==
  \/ \E config \in Configs, priority \in Priorities \cup {Undefined} :
       QueueAdd(config, priority)
  \/ \E id \in CallIds : QueueRemove(id)
  \/ QueueGetNext
  \/ \E id \in CallIds : QueueMarkProcessing(id)
  \/ \E id \in CallIds, sessionId \in SessionIds :
       QueueMarkComplete(id, sessionId)
  \/ \E id \in CallIds, error \in Errors : QueueMarkFailed(id, error)
  \/ QueueClear

NextBreaker ==
  \/ \E d \in { ResetTimeout - 1, ResetTimeout } : Elapse(d)
  \/ JulesRequest
  \/ \E outcome \in Outcomes : JulesComplete(outcome)
  \/ Health
  \/ CacheStats

NextRetry ==
  \/ \E maxRetries \in 0..MaxTries, maxDelay \in MaxDelays, jitter \in Jitters :
       RetryWithBackoff(maxRetries, maxDelay, jitter)
  \/ \E ok \in BOOLEAN, value \in Results, code \in StatusCodes \cup {Undefined},
        jitter \in Jitters :
       OpSettle(ok, value, code, jitter)
  \/ \E jitter \in Jitters : RetryWake(jitter)
  \/ \E d \in { ResetTimeout - 1, ResetTimeout } : Elapse(d)

NextWrapped ==
  \/ \E sessionId \in SessionKeys, jitter \in Jitters :
       CancelSession(sessionId, jitter)
  \/ \E sessionId \in SessionKeys, jitter \in Jitters :
       DeleteSession(sessionId, jitter)
  \/ \E outcome \in Outcomes, status \in {0, 200} \cup HttpStatuses,
        jitter \in Jitters :
       WrappedSettle(outcome, status, jitter)
  \/ \E jitter \in Jitters : RetryWake(jitter)
  \/ \E d \in { ResetTimeout - 1, ResetTimeout } : Elapse(d)

NextLimiter ==
  \/ \E ip \in Ips : McpRequest(ip)
  \/ \E d \in { RateLimitWindow - 1, RateLimitWindow } : Elapse(d)

NextBucket ==
  \/ \E identity \in Identities, route \in Routes : AdmitRequest(identity, route)
  \/ \E d \in { RateLimitWindow - 1, RateLimitWindow } : Elapse(d)

NextIntegration ==
  \/ InitializeRateLimiter
  \/ \E outcome \in { "connected", "notConnected", "throws" } :
       InitializeSettle(outcome)
  \/ GetRateLimiterMiddleware
  \/ \E apiKey \in ApiKeys, tier \in TierNames : SetApiKeyTier(apiKey, tier)
  \/ \E apiKey \in ApiKeys : GetApiKeyTier(apiKey)
  \/ CloseRateLimiter
  \/ \E ok \in BOOLEAN : CloseSettle(ok)

NextHttp ==
  \/ \E slot \in Slots, req \in Requests, ip \in Ips : Receive(slot, req, ip)
  \/ \E slot \in Slots, ok \in BOOLEAN : CacheGetSettle(slot, ok)
  \/ \E slot \in Slots, ok \in BOOLEAN : HandlerSettle(slot, ok)
  \/ RedisConnect
  \/ RedisError
  \/ \E path \in { GetActive.path, GetStats.path } : InvalidateCache(path)
  \/ Elapse(RateLimitWindow)

NextProcess ==
  \/ \E config \in ProcessConfigs : QueueAdd(config, Undefined)
  \/ QueueClear
  \/ \E w \in Invocations : ProcessQueueStart(w)
  \/ \E w \in Invocations, outcome \in ProcessOutcomes :
       SourcesSettle(w, outcome)
  \/ \E w \in Invocations, outcome \in ProcessOutcomes,
          body \in SessionBodies :
       CreateSettle(w, outcome, body)
  \/ \E w \in Invocations : ProcessQueueCatch(w)

InitCore ==
  /\ now = 0
  /\ InitProcess
  /\ InitCache
  /\ InitQueue
  /\ InitUpstream
  /\ InitRetry
  /\ InitBuckets
  /\ InitIntegration

Init ==
  /\ InitCore
  /\ InitLimiter
  /\ InitHttp

Next ==
  \/ NextCache
  \/ NextQueue
  \/ NextBreaker
  \/ NextRetry
  \/ NextWrapped
  \/ NextLimiter
  \/ NextBucket
  \/ NextIntegration
  \/ NextHttp
  \/ NextProcess

Spec == Init /\ [][Next]_vars

\* the cache alone, beside a queue as constructed at src/index.js:88
InitCacheOnly == Init /\ maxRetained = MaxRetained

SpecCache == InitCacheOnly /\ [][NextCache]_vars

\* the queue alone, beside a cache as constructed at src/index.js:87
InitQueueOnly == Init /\ maxSize = MaxSize

SpecQueue == InitQueueOnly /\ [][NextQueue]_vars

\* the breaker and julesRequest alone
InitBreakerOnly == Init /\ maxSize = MaxSize /\ maxRetained = MaxRetained

SpecBreaker == InitBreakerOnly /\ [][NextBreaker]_vars

\* retryWithBackoff on an operation of its own
SpecRetry == InitBreakerOnly /\ [][NextRetry]_vars

\* cancelSession and deleteSession, one call at a time, and the breaker
SpecWrapped == InitBreakerOnly /\ [][NextWrapped]_vars

\* the /mcp/ rate limit middleware alone
SpecLimiter == InitBreakerOnly /\ [][NextLimiter]_vars

\* the token bucket of spec 4.1 alone
SpecBucket == InitBreakerOnly /\ [][NextBucket]_vars

\* the rate limiter integration module alone
SpecIntegration == InitBreakerOnly /\ [][NextIntegration]_vars

\* the HTTP pipeline: response cache, rate limit middleware, routes.  The
\* caller has sent 99 requests in the current minute.
InitHttpOnly ==
  /\ InitCore
  /\ maxSize = MaxSize
  /\ maxRetained = MaxRetained
  /\ limOp = [op |-> "new", ip |-> "-", status |-> 0, retryAfter |-> 0,
              remaining |-> 0, at |-> 0,
              prev |-> [at |-> 0, status |-> 0, retryAfter |-> 0],
              sent |-> [ i \in 1..(RateLimitMax - 1) |-> 0 ],
              admitted |-> [ i \in 1..(RateLimitMax - 1) |-> 0 ]]
  /\ rateLimitStore =
       << [key |-> "ip1", value |-> [ i \in 1..(RateLimitMax - 1) |-> 0 ]] >>
  /\ InitHttpAny

SpecHttp == InitHttpOnly /\ [][NextHttp]_vars

\* the queue under add, clear and concurrent processQueue invocations
SpecProcess == InitBreakerOnly /\ [][NextProcess]_vars

\* the same, where every request that was sent settles and every pending
\* catch runs
FairProcess ==
  /\ SpecProcess
  /\ \A w \in Invocations :
       /\ WF_vars(\E outcome \in ProcessOutcomes : SourcesSettle(w, outcome))
       /\ WF_vars(\E outcome \in ProcessOutcomes, body \in SessionBodies :
                    CreateSettle(w, outcome, body))
       /\ WF_vars(ProcessQueueCatch(w))

\* ------------------------------------------------------- LRUCache claims
IsSubstring(p, k) ==
  \E a \in 0..Len(k) : \E b \in a..Len(k) : SubSeq(k, a + 1, b) = p

EntryOf(c, key) == CHOOSE e \in { c[i] : i \in 1..Len(c) } : e.key = key

\* position of a present key in the Map's iteration (eviction) order
Pos(c, key) == CHOOSE i \in 1..Len(c) : c[i].key = key

\* C1: for every configured maxSize >= 1 the number of stored entries never
\* exceeds maxSize, in any state reached by get, set, invalidate and clear.
C1_CapacityInvariant == maxSize >= 1 /\ Len(cache) <= maxSize

\* a set of a new key into a full cache has run
C1_Witness ==
  /\ cacheOp.op = "set" /\ ~cacheOp.hit
  /\ cacheOp.n = maxSize /\ Len(cache) = maxSize

\* C2: a successful get(key) moves key to the most-recently-used end of the
\* eviction order; a set of an absent key into a full cache removes exactly
\* one entry, the one least recently inserted or read, and adds the new key.
C2_EvictionOrder ==
  [][ /\ (cacheOp'.op = "get" /\ cacheOp'.ret # Null) =>
           /\ Len(cache') = Len(cache)
           /\ cache'[Len(cache')].key = cacheOp'.key
           /\ \A j, k \in SeqKeys(cache) \ {cacheOp'.key} :
                Pos(cache, j) < Pos(cache, k) => Pos(cache', j) < Pos(cache', k)
      /\ (cacheOp'.op = "set" /\ ~cacheOp'.hit /\ Len(cache) = maxSize) =>
           /\ Len(cache') = Len(cache)
           /\ SeqKeys(cache') =
                (SeqKeys(cache) \ {Head(useOrder)}) \cup {cacheOp'.key}
           /\ cache'[Len(cache')].key = cacheOp'.key
    ]_vars

\* maxSize = 2; set A, set B, get A, set C has left A and C, A before C
C2_Witness ==
  /\ maxSize = 2
  /\ cacheOp.op = "set" /\ ~cacheOp.hit /\ cacheOp.n = 2
  /\ cacheOp.key = <<"x", "a">>
  /\ KeyList(cache) = << <<"s", "a">>, <<"x", "a">> >>
  /\ useOrder = << <<"s", "a">>, <<"x", "a">> >>

\* C3: set on a key that is already present removes no entry: the keys and
\* the size are unchanged, every other key keeps its value and expiry, and
\* the written key holds the written value.
C3_SetExistingFrame ==
  [][ (cacheOp'.op = "set" /\ cacheOp'.hit) =>
        /\ Len(cache') = Len(cache)
        /\ SeqKeys(cache') = SeqKeys(cache)
        /\ \A k \in SeqKeys(cache) \ {cacheOp'.key} :
             EntryOf(cache', k) = EntryOf(cache, k)
        /\ EntryOf(cache', cacheOp'.key).value = lastSet'[cacheOp'.key]
        /\ EntryOf(cache', cacheOp'.key).expires \in
             { now + t : t \in TTLs \cup {defaultTTL} }
    ]_vars

\* a present key has been re-set while the cache was full with another key
C3_Witness ==
  /\ cacheOp.op = "set" /\ cacheOp.hit
  /\ cacheOp.n = maxSize /\ Len(cache) = maxSize /\ maxSize >= 2

\* C4: set on a key that is already present refreshes its recency: after the
\* re-set the key is the most recently used entry, the last to be evicted.
C4_ResetRefreshesRecency ==
  (cacheOp.op = "set" /\ cacheOp.hit) =>
    cache[Len(cache)].key = cacheOp.key

\* C5: get of a present entry whose expiry time has passed returns null and
\* removes the entry; get of a present entry before expiry returns the value
\* last set for the key and keeps the entry.
C5_Expiry ==
  [][ (cacheOp'.op = "get" /\ cacheOp'.hit) =>
        LET e == EntryOf(cache, cacheOp'.key) IN
        /\ now > e.expires =>
             /\ cacheOp'.ret = Null
             /\ ~MapHas(cache', cacheOp'.key)
             /\ Len(cache') = Len(cache) - 1
        /\ now <= e.expires =>
             /\ cacheOp'.ret = lastSet[cacheOp'.key]
             /\ cacheOp'.ret # Null
             /\ MapHas(cache', cacheOp'.key)
    ]_vars

\* a get has found an expired entry and removed it
C5_Witness ==
  /\ cacheOp.op = "get" /\ cacheOp.hit /\ cacheOp.ret = Null
  /\ ~MapHas(cache, cacheOp.key)
  /\ Len(cache) = cacheOp.n - 1

\* C6: invalidate(pattern) removes exactly the entries whose key contains
\* pattern as a substring; the remaining entries keep their values, expiries
\* and relative order.
C6_Invalidate ==
  [][ cacheOp'.op = "invalidate" =>
        /\ SeqKeys(cache') =
             { k \in SeqKeys(cache) : ~IsSubstring(cacheOp'.key, k) }
        /\ \A k \in SeqKeys(cache') : EntryOf(cache', k) = EntryOf(cache, k)
        /\ \A j, k \in SeqKeys(cache') :
             Pos(cache, j) < Pos(cache, k) => Pos(cache', j) < Pos(cache', k)
        /\ Len(cache') = Cardinality(SeqKeys(cache'))
    ]_vars

\* an invalidate has removed one of two entries and kept the other
C6_Witness ==
  /\ cacheOp.op = "invalidate" /\ cacheOp.key = <<"s">>
  /\ cacheOp.n = 2 /\ Len(cache) = 1
  /\ cache[1].key = <<"x", "a">>

\* ---------------------------------------------------- SessionQueue claims
PendingIdx(q) == { i \in 1..Len(q) : q[i].status = "pending" }

TerminalIds(q) == { q[i].id : i \in { j \in 1..Len(q) : IsTerminal(q[j]) } }

IsMark(op) == op \in { "markComplete", "markFailed" }

\* C7: getNext() returns absent iff no item is pending, and otherwise the
\* pending item with the smallest priority value, the earliest added one
\* among pending items of equal priority.
C7_GetNextOrder ==
  qOp.op = "getNext" =>
    /\ (qOp.ret = NoId) <=> (PendingIdx(queue) = {})
    /\ PendingIdx(queue) # {} =>
         \E i \in PendingIdx(queue) :
           /\ queue[i].id = qOp.ret
           /\ \A j \in PendingIdx(queue) :
                \/ queue[i].priority < queue[j].priority
                \/ /\ queue[i].priority = queue[j].priority
                   /\ queue[i].id <= queue[j].id

\* getNext has returned the item added second, ahead of a pending item that
\* was added first with a larger priority value
C7_Witness ==
  /\ qOp.op = "getNext" /\ qOp.ret = 2
  /\ \E j \in PendingIdx(queue) :
       queue[j].id = 1 /\ queue[j].priority > 1

\* C8: the number of completed or failed items never exceeds maxRetained.
C8_RetentionCap == Len(SelectSeq(queue, IsTerminal)) <= maxRetained

\* a completion or failure has made cleanup drop an item, leaving the cap met
C8_Witness ==
  /\ IsMark(qOp.op) /\ qOp.dropped >= 1
  /\ maxRetained >= 1
  /\ Len(SelectSeq(queue, IsTerminal)) = maxRetained

\* C9: whenever cleanup removes items, the retained terminal items are
\* exactly the maxRetained most recently completed or failed ones, whatever
\* the priorities of the items are.
C9_OldestDroppedFirst ==
  [][ (qOp'.op \in {"add", "markComplete", "markFailed"} /\ qOp'.dropped > 0) =>
        LET done == IF IsMark(qOp'.op) /\ qOp'.id \in Ids(queue)
                      THEN Append(SelectSeq(doneOrder,
                                            LAMBDA d : d # qOp'.id), qOp'.id)
                      ELSE doneOrder
            keep == IF maxRetained < Len(done) THEN maxRetained ELSE Len(done)
        IN TerminalIds(queue') =
             { done[i] : i \in (Len(done) - keep + 1)..Len(done) }
    ]_vars

\* C10: add, markComplete and markFailed keep every pending or processing
\* item, with the same status, priority and payload, except the one item
\* whose status the call itself changes.
C10_CleanupKeepsLive ==
  [][ qOp'.op \in {"add", "markComplete", "markFailed"} =>
        \A i \in 1..Len(queue) :
          ( /\ queue[i].status \in {"pending", "processing"}
            /\ ~(IsMark(qOp'.op) /\ queue[i].id = qOp'.id) ) =>
          \E j \in 1..Len(queue') : queue'[j] = queue[i]
    ]_vars

\* cleanup has dropped a terminal item while a pending or processing item
\* was in the queue
C10_Witness ==
  /\ IsMark(qOp.op) /\ qOp.dropped >= 1
  /\ \E i \in 1..Len(queue) : queue[i].status \in {"pending", "processing"}

QPos(q, id) == CHOOSE i \in 1..Len(q) : q[i].id = id

\* C11: clear() removes exactly the pending items, returns the number of
\* items it removed, and leaves every processing, completed and failed item
\* unchanged and in the same relative order.
C11_ClearPendingOnly ==
  [][ qOp'.op = "clear" =>
        /\ Ids(queue') = Ids(queue) \ { queue[i].id : i \in PendingIdx(queue) }
        /\ qOp'.ret = Len(queue) - Len(queue')
        /\ \A i \in 1..Len(queue) :
             queue[i].status # "pending" =>
               queue'[QPos(queue', queue[i].id)] = queue[i]
        /\ \A a, b \in Ids(queue') :
             QPos(queue, a) < QPos(queue, b) => QPos(queue', a) < QPos(queue', b)
    ]_vars

\* clear has removed a pending item and kept a processing one
C11_Witness ==
  /\ qOp.op = "clear" /\ qOp.ret >= 1
  /\ \E i \in 1..Len(queue) : queue[i].status = "processing"

\* ------------------------------------------------- circuit breaker claims
\* the step taken starts with an isOpen() check
Checks(op) == op.calls # << >> /\ op.calls[1] = "isOpen"

OnlyChecks(op) ==
  op.calls # << >> /\ \A i \in 1..Len(op.calls) : op.calls[i] = "isOpen"

C13_AutoClose ==
  [][ (Checks(cbOp') /\ failures >= Threshold
         /\ now - hist.failedAt >= ResetTimeout) =>
        /\ ~cbOp'.open
        /\ cbOp'.reset
        /\ OnlyChecks(cbOp') => failures' = 0 /\ lastFailure' = lastFailure
        /\ cbOp'.op = "julesRequest" =>
             /\ cbOp'.ret = "attempted"
             /\ inflight' = inflight + 1
             /\ failures' = 0
    ]_vars

\* a julesRequest has found the breaker tripped and timed out, and is in flight
C13_Witness ==
  /\ cbOp.op = "julesRequest" /\ cbOp.reset /\ cbOp.ret = "attempted"
  /\ failures = 0 /\ inflight >= 1
  /\ now - hist.failedAt >= ResetTimeout

\* C14: once the breaker is open, every julesRequest issued before
\* resetTimeout has elapsed since the last recorded failure is rejected
\* without a network attempt, whatever requests in flight do meanwhile.
C14_OpenRejectsAll ==
  [][ (cbOp'.op = "julesRequest" /\ hist.tripped
         /\ now - hist.failedAt < ResetTimeout) =>
        /\ cbOp'.ret = "rejected"
        /\ inflight' = inflight
    ]_vars

RECURSIVE CountFailures(_)
CountFailures(calls) ==
  IF calls = << >> THEN 0
  ELSE (IF calls[1] = "recordFailure" THEN 1 ELSE 0) + CountFailures(Tail(calls))

ClientFault(code) == code \in 400..499 /\ code # 429

AllRetryable(errs) ==
  \A i \in 1..Len(errs) : ~ClientFault(errs[i].statusCode)

Codes(errs) == [ i \in 1..Len(errs) |-> errs[i].statusCode ]

\* C17: with maxRetries >= 1, a call that has ended after k < maxRetries failed
\* attempts, all of them retryable, has ended by returning the value the
\* operation resolved with on invocation k + 1, after exactly k + 1
\* invocations and exactly k delays.
C17_SuccessPath ==
  ( /\ retry.pc = "done"
    /\ retry.maxRetries >= 1
    /\ Len(retry.errs) < retry.maxRetries
    /\ AllRetryable(retry.errs) )
  => /\ retry.result.kind = "return"
     /\ retry.result.value = retry.fnValue
     /\ retry.fnValue \in Results
     /\ retry.calls = Len(retry.errs) + 1
     /\ Len(retry.delayLog) = Len(retry.errs)

C17_Witness ==
  /\ retry.pc = "done"
  /\ retry.maxRetries = 3
  /\ Codes(retry.errs) = <<503, 503>>
  /\ retry.result.kind = "return"
  /\ retry.calls = 3
  /\ Len(retry.delayLog) = 2

\* C18: when the last failed attempt raised a statusCode in [400, 500) other
\* than 429, the call has ended by throwing that error, with no delay and no
\* invocation after it; when it raised 429, a statusCode >= 500 or no
\* statusCode and attempts remain, a delay is awaited and the operation is
\* invoked again.
C18_RetryPolicy ==
  retry.errs # << >> =>
    LET k == Len(retry.errs)
        e == retry.errs[k]
    IN IF ClientFault(e.statusCode)
         THEN /\ retry.pc = "done"
              /\ retry.result.kind = "throw"
              /\ retry.result.value = e
              /\ retry.calls = k
              /\ Len(retry.delayLog) = k - 1
         ELSE k < retry.maxRetries =>
                \/ /\ retry.pc = "delay"
                   /\ retry.calls = k
                   /\ Len(retry.delayLog) = k
                \/ /\ retry.pc \in { "wait", "done" }
                   /\ retry.calls = k + 1
                   /\ Len(retry.delayLog) = k

C18_Witness ==
  /\ retry.pc = "done"
  /\ retry.maxRetries = 3
  /\ Codes(retry.errs) = <<429, 404>>
  /\ retry.result.kind = "throw"
  /\ retry.calls = 2
  /\ Len(retry.delayLog) = 1

\* C19: with maxRetries >= 1, once maxRetries attempts have failed with
\* retryable errors the call has ended by throwing the error of the last
\* attempt, after exactly maxRetries invocations and maxRetries - 1 delays;
\* no delay is awaited after the last failed attempt.
C19_Exhaustion ==
  ( /\ retry.maxRetries >= 1
    /\ Len(retry.errs) = retry.maxRetries
    /\ AllRetryable(retry.errs) )
  => /\ retry.pc = "done"
     /\ retry.result.kind = "throw"
     /\ retry.result.value = retry.errs[retry.maxRetries]
     /\ retry.errs[retry.maxRetries].by = retry.maxRetries
     /\ retry.calls = retry.maxRetries
     /\ Len(retry.delayLog) = retry.maxRetries - 1

C19_Witness ==
  /\ retry.pc = "done"
  /\ retry.maxRetries = 3
  /\ Codes(retry.errs) = <<Undefined, 500, 429>>
  /\ retry.result.kind = "throw"
  /\ retry.result.value = retry.errs[3]
  /\ retry.calls = 3
  /\ Len(retry.delayLog) = 2

\* C20: a cancelSession or deleteSession call whose first julesRequest is
\* rejected by the open breaker has failed after that single attempt, with no
\* delay and no further attempt.
C20_OpenFailsFast ==
  ( /\ retry.fn = "julesRequest"
    /\ retry.gates # << >>
    /\ retry.gates[1] = "rejected" )
  => /\ retry.pc = "done"
     /\ retry.result.kind = "throw"
     /\ retry.calls = 1
     /\ retry.delayLog = << >>

\* ---------------------------------------------- retried julesRequest claims
\* C21: a cancelSession or deleteSession call that has ended, and whose
\* attempts all passed the breaker gate, has made exactly one recordSuccess
\* or recordFailure call on the breaker.
C21_OneRecordPerCall ==
  ( /\ retry.fn = "julesRequest"
    /\ retry.pc = "done"
    /\ \A i \in 1..Len(retry.gates) : retry.gates[i] = "attempted" )
  => Len(retry.recorded) = 1

\* C22: a cancelSession or deleteSession call whose first upstream attempt was
\* answered with a status in [400, 500) other than 429 has ended by throwing
\* after that one attempt.
C22_ClientFaultSurfaced ==
  ( /\ retry.fn = "julesRequest"
    /\ retry.upstream # << >>
    /\ ClientFault(retry.upstream[1]) )
  => /\ retry.pc = "done"
     /\ retry.result.kind = "throw"
     /\ retry.calls = 1

\* C39: a julesRequest call that the open breaker rejects starts no network
\* attempt and calls neither recordSuccess nor recordFailure: failures and
\* lastFailure, and so the time of the auto-close, are after the call what
\* they were before it.
C39_RejectionLeavesBreaker ==
  [][ (cbOp'.op = "julesRequest" /\ cbOp'.ret = "rejected")
      => /\ failures' = failures
         /\ lastFailure' = lastFailure
         /\ inflight' = inflight
         /\ cbOp'.calls = << "isOpen" >> ]_vars

\* a call rejected some time after the failure that tripped the breaker
C39_Witness ==
  /\ cbOp.op = "julesRequest"
  /\ cbOp.ret = "rejected"
  /\ failures >= Threshold
  /\ now > lastFailure

\* C36: the k-th delay of a call, awaited after failed attempt k, is
\* min(baseDelay * 2^(k-1) + jitter, maxDelay) for a jitter of at least 0
\* and less than 1000; it is at most maxDelay and at least
\* min(baseDelay * 2^(k-1), maxDelay).
C36_BackoffBounds ==
  retry.caller = "retryWithBackoff" =>
    \A k \in 1..Len(retry.delayLog) :
      LET plain == retry.baseDelay * 2 ^ (k - 1)
          floor == IF plain <= retry.maxDelay THEN plain ELSE retry.maxDelay
          delay == retry.delayLog[k]
      IN /\ delay <= retry.maxDelay
         /\ delay >= floor
         /\ \E jitter \in 0..999 :
              delay = IF plain + jitter <= retry.maxDelay
                        THEN plain + jitter ELSE retry.maxDelay

\* a first delay of baseDelay, below the cap, and a second delay that the
\* cap cut to maxDelay
C36_Witness ==
  /\ retry.caller = "retryWithBackoff"
  /\ Len(retry.delayLog) = 2
  /\ retry.delayLog[1] = retry.baseDelay
  /\ retry.delayLog[1] < retry.maxDelay
  /\ retry.delayLog[2] = retry.maxDelay
  /\ retry.baseDelay * 2 > retry.maxDelay

\* C40: a finished retryWithBackoff call has invoked the operation at least
\* once, whatever maxRetries is, and the error it throws was raised by one
\* of its invocations.
C40_AtLeastOneInvocation ==
  (retry.caller = "retryWithBackoff" /\ retry.pc = "done") =>
    /\ retry.calls >= 1
    /\ retry.result.kind = "throw" =>
         /\ retry.result.value.by >= 1
         /\ retry.result.value.by <= retry.calls

\* ------------------------------------------------- rate limit claims
\* C23: a request the rate limit middleware rejects leaves the caller's
\* record in rateLimitStore as it was.
C23_RejectedLeavesRecord ==
  [][ (limOp'.op = "request" /\ limOp'.status = 429 /\ now' = now)
      => rateLimitStore' = rateLimitStore ]_vars

\* C34: of one caller's requests whose times lie in a span shorter than
\* RATE_LIMIT_WINDOW, at most RATE_LIMIT_MAX are passed to next(); a request
\* with RATE_LIMIT_MAX or more of the caller's requests before it in such a
\* span is answered 429 with a retryAfter hint.
C34_AdmissionBound ==
  limOp.op = "request" =>
    /\ Len(limOp.admitted) <= RateLimitMax
    /\ Len(limOp.sent) > RateLimitMax =>
         (limOp.status = 429 /\ limOp.retryAfter > 0)

\* RATE_LIMIT_MAX requests were admitted inside one window and a request
\* beyond the 101st was rejected in it
C34_Witness ==
  /\ limOp.op = "request"
  /\ limOp.status = 429
  /\ limOp.retryAfter > 0
  /\ Len(limOp.admitted) = RateLimitMax
  /\ Len(limOp.sent) > RateLimitMax + 1

\* C35: a caller whose last request was answered 429 and who then sends
\* nothing for the retryAfter seconds it was told has its next request
\* admitted; every admitted request reports a remaining count of
\* RATE_LIMIT_MAX minus the caller's requests in the current window, and
\* that count is not negative.
C35_RetryAfterSuffices ==
  limOp.op = "request" =>
    /\ ( /\ limOp.prev.status = 429
         /\ limOp.at - limOp.prev.at >= limOp.prev.retryAfter * 1000 )
       => limOp.status = 0
    /\ limOp.status = 0 =>
         /\ limOp.remaining = RateLimitMax - Len(limOp.sent)
         /\ limOp.remaining >= 0

\* a rejected caller waited out the hint and was admitted
C35_Witness ==
  /\ limOp.op = "request"
  /\ limOp.prev.status = 429
  /\ limOp.at - limOp.prev.at >= limOp.prev.retryAfter * 1000
  /\ limOp.status = 0
  /\ limOp.remaining = RateLimitMax - 1

\* C24: every bucket that exists holds at least 0 tokens and at most the
\* burst capacity of its tier, after every admission decision.
C24_BucketBounds ==
  \A k \in BucketKeys :
    buckets[k] # NoBucket =>
      /\ buckets[k].tokens >= 0
      /\ buckets[k].tokens <= TierConfig(TierOf(k[1])).burstCapacity * TokenUnit

\* a refill that the cap cut short, and a rejection that left a partly
\* filled bucket
C24_Witness ==
  /\ bkOp.op = "admit"
  /\ bkOp.key = <<"free1", "/mcp/">>
  /\ ~bkOp.allowed
  /\ buckets[<<"free1", "/mcp/">>].tokens \in 1..(TokenUnit - 1)
  /\ bkOp.refilled = 0

\* ------------------------------------------- rate limiter integration claims
\* C25: a setApiKeyTier or getApiKeyTier call made while initializeRateLimiter
\* has not completed fails with 'Rate limiter not initialized' and changes
\* nothing.
C25_TierNeedsStartup ==
  (rlOp.op \in { "setTier", "getTier" } /\ ~rlOp.started)
  => rlOp.ret = "notInitialized" /\ ~rlOp.changed

\* C26: every initializeRateLimiter call that returns resolves with a limiter
\* instance, and that instance is the singleton.
C26_InitializeResolvesInstance ==
  rlOp.op = "initialize"
  => /\ rlOp.ret = "resolved"
     /\ rlOp.inst # 0
     /\ rlOp.inst = rateLimiter.id

\* ---------------------------------------------------- response cache claims
\* C27: a cacheMiddleware invocation that finds caching disabled, the store
\* not connected or a method other than GET goes on without a read and
\* without installing a writer: each such invocation is a bypass, a request
\* has read once for each invocation that was not a bypass and has written at
\* most once for each invocation that missed.
C27_Invocations(r, what) ==
  Cardinality({ i \in 1..Len(r.layers) : r.layers[i] \in what })

C27_BypassTouchesNothing ==
  \A s \in Slots :
    LET r == reqs[s] IN
    /\ \A i \in 1..Len(r.layers) :
         (r.req.method # "GET" \/ ~r.conn[i]) => r.layers[i] = "bypass"
    /\ r.reads = C27_Invocations(r, { "hit", "miss" })
    /\ Len(r.writes) <= C27_Invocations(r, { "miss" })

C27_Witness ==
  \E s \in Slots :
    /\ reqs[s].pc = "done"
    /\ reqs[s].req = PostTools
    /\ reqs[s].layers = << "bypass" >>
    /\ redis.enabled
    /\ redis.isRedisConnected
    /\ redis.store[GetCacheKey(GetTools)] # NoEntry

\* C28: a request answered from the cache carries the stored value and
\* X-Cache: hit, its handler has not run, and it wrote nothing to the store.
C28_HitWritesNothing ==
  \A s \in Slots :
    LET r == reqs[s] IN
    (r.pc = "done" /\ r.cached # NoBody)
    => /\ r.body = r.cached
       /\ r.xCache = "hit"
       /\ ~r.handlerRan
       /\ r.writes = << >>

\* C29: a GET none of whose reads found a value carries X-Cache: miss; what
\* it stores is the text of its own 2xx response under cache:<originalUrl>
\* with the TTL of its path, and a response that is not 2xx stores nothing.
C29_Ttl(req) ==
  IF req.path = "/mcp/tools" THEN 3600
  ELSE IF req.path = "/api/sessions/stats" THEN 30
  ELSE IF req.path = "/api/sessions/active" THEN 10
  ELSE 300

C29_MissStoresOnly2xx ==
  \A s \in Slots :
    LET r == reqs[s] IN
    (r.pc = "done" /\ r.reads > 0 /\ r.cached = NoBody)
    => /\ r.xCache = "miss"
       /\ (r.status < 200 \/ r.status >= 300) => r.writes = << >>
       /\ (r.status >= 200 /\ r.status < 300)
            => /\ r.handlerRan
               /\ r.writes # << >>
               /\ \A i \in 1..Len(r.writes) :
                    r.writes[i] = [key |-> <<"cache:", r.req.originalUrl>>,
                                   ttl |-> C29_Ttl(r.req),
                                   value |-> r.body]

C29_Witness ==
  \E s \in Slots :
    /\ reqs[s].pc = "done"
    /\ reqs[s].req = GetToolsQuery
    /\ reqs[s].status = 200
    /\ reqs[s].cached = NoBody
    /\ Len(reqs[s].writes) = 2
    /\ redis.store[<<"cache:", "/mcp/tools?v=1">>].ttl = 3600

\* C30: a request under /mcp/ that has been answered was admitted by the
\* rate limiter, or was answered by the rate limiter's rejection.
C30_AdmissionBeforeCache ==
  \A s \in Slots :
    LET r == reqs[s] IN
    (r.pc = "done" /\ r.req.mcp) => r.limited \in { "admitted", "rejected" }

\* ------------------------------------------------- upstream outcome claims
\* C31: every attempt that completes records exactly one outcome on the
\* breaker: one recordSuccess for a 2xx response, one recordFailure for
\* anything else.
C31_OneOutcomePerAttempt ==
  cbOp.op = "complete"
  => cbOp.calls = IF cbOp.ret = "ok" THEN << "recordSuccess" >>
                  ELSE << "recordFailure" >>

\* ------------------------------------------------- cache invalidation claim
\* C32: a response computed by a handler that was already running when its
\* path was invalidated is never put into the store.
C32_NoStaleRefill ==
  \A s \in Slots :
    (reqs[s].pc = "done" /\ reqs[s].overtaken) => reqs[s].writes = << >>

\* ------------------------------------------------------ processQueue claims
StatusOfItem(q, id) ==
  IF id \in Ids(q) THEN ItemOf(q, id).status ELSE "absent"

Owned(id) ==
  \E w \in Invocations : pq.workers[w].pc # "idle" /\ pq.workers[w].id = id

\* C33: no item is handed to createJulesSession twice, and no two running
\* invocations hold the same item.
C33_NoDoublePick ==
  /\ \A i, j \in 1..Len(pq.handed) : pq.handed[i] = pq.handed[j] => i = j
  /\ \A v, w \in Invocations :
       (pq.workers[v].pc # "idle" /\ pq.workers[w].pc # "idle"
        /\ pq.workers[v].id = pq.workers[w].id) => v = w

C33_Witness ==
  /\ pq.workers[1].pc \in { "sources", "create" }
  /\ pq.workers[2].pc \in { "sources", "create" }
  /\ Len(pq.handed) = 2

\* C37: under add, clear and processQueue an item goes pending ->
\* processing -> completed or failed and then keeps its status until it is
\* dropped; a completed item has a session id, a failed item an error, and a
\* processing item belongs to a running invocation.
C37_Steps ==
  { <<"absent", "pending">>, <<"pending", "processing">>,
    <<"processing", "completed">>, <<"processing", "failed">>,
    <<"pending", "absent">>, <<"completed", "absent">>,
    <<"failed", "absent">> }

====
